---- MODULE Spec2Model ----
(***************************************************************************)
(* A model of the revenue analytics core of vesh-agents: entity resolution *)
(* (scoring, Union-Find clustering, canonical records) and the metric      *)
(* computation engine.                                                     *)
(*                                                                         *)
(* Conventions.  A Python str is a sequence of tokens (a key               *)
(* "stripe:s1" is <<"stripe", ":", "s1">>), so that formatting a key and   *)
(* splitting it again are real operations.  A total score is an integer    *)
(* number of 1/10000 (total_score is rounded to 4 decimals), a dimension   *)
(* score an integer number of 1/1000000.  A float that is the result of a  *)
(* division is an exact rational [num, den] in lowest terms.               *)
(***************************************************************************)
EXTENDS Integers, Sequences, FiniteSets, TLC

VARIABLES
    \* ---- ClusteringEngine.cluster, one call
    scored_pairs,   \* the argument: a list of PairScore
    cidx,           \* position of the for loop over scored_pairs
    uf,             \* the UnionFind object: parent, rank, keys (insertion order of parent)
    pair_map,       \* dict root key -> list of PairScore
    clusters,       \* the returned list of EntityCluster
    cpc,            \* "idle" | "loop" | "done"
    \* ---- MetricComputationEngine.compute_all, called again with the same arguments
    tenant_id,
    period_date,
    entity_data,
    previous_snapshots,
    mpc,            \* "idle" | "direct" | "formula" | "assemble" | "done" | "raised"
    midx,           \* position of the running loop over CORE_METRICS.items()
    results,        \* the results dict: vals, and order (its insertion order)
    computed,       \* the returned list of ComputedMetric
    runs,           \* calls of compute_all started so far
    prior_computed, \* what the previous call returned
    wall_clock,     \* the time of day, which moves on between calls
    \* ---- the resolution pipeline: blocking, scoring, clustering, canonical records
    sources_in,     \* the two sources: a and b, each [source, records]
    min_score,      \* the threshold handed to score_candidates
    candidates,     \* what generate_candidates returned
    resolved,       \* the canonical records, one per cluster
    rpc,            \* "idle" | "block" | "score" | "cluster" | "done"
    rruns,          \* runs of cluster + compute_canonical_record so far
    prior_clusters, \* the clusters of the previous run
    prior_entities, \* the canonical records of the previous run
    entry_point,    \* "cli" | "tools" | "mcp": the caller of the pipeline
    entity_output,  \* the entities the caller hands on
    \* ---- one call of a function that keeps no state
    call_args,      \* the arguments of the call
    call_result,    \* what the call returned
    call_pc         \* "idle" | "called" | "returned"

cvars == <<scored_pairs, cidx, uf, pair_map, clusters, cpc>>
mvars == <<tenant_id, period_date, entity_data, previous_snapshots, mpc, midx, results,
           computed, runs, prior_computed, wall_clock>>
rvars == <<sources_in, min_score, candidates, resolved, rpc, rruns, prior_clusters,
           prior_entities, entry_point, entity_output>>
pvars == <<call_args, call_result, call_pc>>
vars == <<cvars, mvars, rvars, pvars>>

\* ------------------------------------------------------------------ helpers

NoneVal == "None"

Range(s) == {s[i] : i \in 1..Len(s)}

RECURSIVE SumSeq(_)
SumSeq(s) == IF s = <<>> THEN 0 ELSE Head(s) + SumSeq(Tail(s))

RECURSIVE MaxSeq(_)
MaxSeq(s) == IF Len(s) = 1 THEN Head(s)
             ELSE LET m == MaxSeq(Tail(s)) IN IF Head(s) >= m THEN Head(s) ELSE m

Abs(x) == IF x < 0 THEN -x ELSE x

RECURSIVE GCD(_, _)
GCD(a, b) == IF b = 0 THEN a ELSE GCD(b, a % b)

\* The rational n/d (d # 0) in lowest terms with a positive denominator.
Rat(n, d) ==
    LET g == GCD(Abs(n), Abs(d))
        s == IF d < 0 THEN -1 ELSE 1
    IN  [num |-> (s * n) \div g, den |-> (s * d) \div g]

RInt(n) == [num |-> n, den |-> 1]
RAdd(a, b) == Rat(a.num * b.den + b.num * a.den, a.den * b.den)
RSub(a, b) == Rat(a.num * b.den - b.num * a.den, a.den * b.den)
RMul(a, b) == Rat(a.num * b.num, a.den * b.den)
RDiv(a, b) == Rat(a.num * b.den, a.den * b.num)
RLeq(a, b) == a.num * b.den <= b.num * a.den

\* All orders in which a finite set can be iterated.
RECURSIVE Orders(_)
Orders(S) == IF S = {} THEN {<<>>}
             ELSE UNION {{<<x>> \o o : o \in Orders(S \ {x})} : x \in S}

SeqsUpTo(S, n) == UNION {[1..k -> S] : k \in 0..n}

\* ------------------------------------------------------------------ keys

\* f"{source}:{record_id}"
FormatKey(source, record_id) == source \o <<":">> \o record_id

FirstColon(k) == CHOOSE i \in 1..Len(k) : k[i] = ":" /\ \A j \in 1..(i - 1) : k[j] # ":"

\* m.split(":", 1)
SplitKey(k) ==
    IF \E i \in 1..Len(k) : k[i] = ":"
    THEN <<SubSeq(k, 1, FirstColon(k) - 1), SubSeq(k, FirstColon(k) + 1, Len(k))>>
    ELSE <<k>>

\* ------------------------------------------------------------------ UnionFind

UFNew == [parent |-> <<>>, rank |-> <<>>, keys |-> <<>>]

UFHas(u, x) == x \in Range(u.keys)

\* find's first statement: an unseen key becomes its own root with rank 0.
UFRegister(u, x) ==
    IF UFHas(u, x) THEN u
    ELSE [parent |-> (x :> x) @@ u.parent, rank |-> (x :> 0) @@ u.rank,
          keys |-> Append(u.keys, x)]

RECURSIVE RootOf(_, _)
RootOf(parent, x) == IF parent[x] = x THEN x ELSE RootOf(parent, parent[x])

\* The keys on the path from x up to its root, root excluded.
RECURSIVE PathOf(_, _)
PathOf(parent, x) == IF parent[x] = x THEN {} ELSE {x} \cup PathOf(parent, parent[x])

\* find(x): registers x, re-points every key on x's path at the root
\* (path compression) and returns the root.
UFFindState(u, x) ==
    LET r == UFRegister(u, x)
        root == RootOf(r.parent, x)
        path == PathOf(r.parent, x)
    IN  [r EXCEPT !.parent = [k \in DOMAIN r.parent |-> IF k \in path THEN root ELSE r.parent[k]]]

UFFindRoot(u, x) == RootOf(UFRegister(u, x).parent, x)

\* A link step that leaves the rank alone when the two ranks are equal.
UFLinkKeepsRank(u, root_x, root_y) ==
    IF root_x = root_y THEN u
    ELSE IF u.rank[root_x] < u.rank[root_y]
         THEN [u EXCEPT !.parent[root_x] = root_y]
    ELSE [u EXCEPT !.parent[root_y] = root_x]

\* The link step of union, on the two roots.
UFLink(u, root_x, root_y) ==
    IF root_x = root_y THEN u
    ELSE IF u.rank[root_x] < u.rank[root_y]
         THEN [u EXCEPT !.parent[root_x] = root_y]
    ELSE IF u.rank[root_x] > u.rank[root_y]
         THEN [u EXCEPT !.parent[root_y] = root_x]
    ELSE [u EXCEPT !.parent[root_y] = root_x, !.rank[root_x] = @ + 1]

\* A union that links the two keys themselves instead of their roots.
UFUnionLinksKeys(u, x, y) ==
    LET u2 == UFRegister(UFRegister(u, x), y)
    IN  IF x = y THEN u2 ELSE [u2 EXCEPT !.parent[x] = y]

UFUnion(u, x, y) ==
    LET u1 == UFFindState(u, x)
        root_x == UFFindRoot(u, x)
        u2 == UFFindState(u1, y)
        root_y == UFFindRoot(u1, y)
    IN  UFLink(u2, root_x, root_y)

\* ------------------------------------------------------------------ ClusteringEngine

\* ClusteringEngine.__init__ defaults, in 1/10000.
HighConfidenceThreshold == 5000
AutoMergeThreshold == 7000

PairKeyA(pair) == FormatKey(pair.record_a_source, pair.record_a_id)
PairKeyB(pair) == FormatKey(pair.record_b_source, pair.record_b_id)

\* dict.setdefault(root, []).append(pair)
MapAppend(m, root, pair) ==
    IF root \in DOMAIN m THEN [m EXCEPT ![root] = Append(@, pair)]
    ELSE (root :> <<pair>>) @@ m

\* The pair filed under its second key instead of the root.
PairMapUnderKeyB(u, pair) == PairKeyB(pair)

\* The root under which the loop body files the pair: uf.find(key_a) after the union.
PairMapRoot(u, pair) == UFFindRoot(u, PairKeyA(pair))

\* A loop body without the threshold test of line 62.
ClusterLoopBodyNoThreshold(st, pair) ==
    LET u1 == UFUnion(st.uf, PairKeyA(pair), PairKeyB(pair))
        root == UFFindRoot(u1, PairKeyA(pair))
    IN  [uf |-> UFFindState(u1, PairKeyA(pair)),
         pair_map |-> MapAppend(st.pair_map, root, pair)]

\* One iteration of "for pair in scored_pairs" on st = [uf, pair_map].
ClusterLoopBody(st, pair) ==
    IF pair.total_score < HighConfidenceThreshold THEN st
    ELSE LET u1 == UFUnion(st.uf, PairKeyA(pair), PairKeyB(pair))
             root == PairMapRoot(u1, pair)
         IN  [uf |-> UFFindState(u1, PairKeyA(pair)),
              pair_map |-> MapAppend(st.pair_map, root, pair)]

RECURSIVE ClusterLoop(_, _)
ClusterLoop(st, pairs) ==
    IF pairs = <<>> THEN st ELSE ClusterLoop(ClusterLoopBody(st, Head(pairs)), Tail(pairs))

\* "for key in uf.parent: root = uf.find(key)": every key ends up pointing at its root.
UFFindAll(u) == [u EXCEPT !.parent = [k \in DOMAIN u.parent |-> RootOf(u.parent, k)]]

\* The keys of the components dict, in insertion order: the roots in the
\* order in which uf.parent first yields a key of theirs.
RECURSIVE RootsInOrder(_, _, _)
RootsInOrder(u, ks, seen) ==
    IF ks = <<>> THEN <<>>
    ELSE LET r == RootOf(u.parent, Head(ks))
         IN  IF r \in seen THEN RootsInOrder(u, Tail(ks), seen)
             ELSE <<r>> \o RootsInOrder(u, Tail(ks), seen \cup {r})

ComponentOf(u, root) == {k \in Range(u.keys) : RootOf(u.parent, k) = root}

\* Iterating a set of str: the elements of S in the order the hash order ho gives.
RECURSIVE IterSet(_, _)
IterSet(S, ho) ==
    IF ho = <<>> THEN <<>>
    ELSE (IF Head(ho) \in S THEN <<Head(ho)>> ELSE <<>>) \o IterSet(S, Tail(ho))

\* "for m in members_set: parts = m.split(':', 1); if len(parts) == 2: members.append(...)"
RECURSIVE MembersOf(_)
MembersOf(ks) ==
    IF ks = <<>> THEN <<>>
    ELSE (IF Len(SplitKey(Head(ks))) = 2 THEN <<SplitKey(Head(ks))>> ELSE <<>>)
         \o MembersOf(Tail(ks))

RECURSIVE ScoresOf(_)
ScoresOf(pairs) ==
    IF pairs = <<>> THEN <<>> ELSE <<Head(pairs).total_score>> \o ScoresOf(Tail(pairs))

\* pair_map.get(root, [])
PairsFor(pm, root) == IF root \in DOMAIN pm THEN pm[root] ELSE <<>>

MakeCluster(root, members, pairs) ==
    [cluster_id |-> root, members |-> members,
     max_confidence |-> IF pairs # <<>> THEN MaxSeq(ScoresOf(pairs)) ELSE 0,
     avg_confidence |-> IF pairs # <<>> THEN Rat(SumSeq(ScoresOf(pairs)), Len(pairs)) ELSE RInt(0),
     pair_scores |-> pairs]

\* The loop over components.items(), for the hash order ho of this process.
RECURSIVE BuildClusters(_, _, _, _)
BuildClusters(u, pm, roots, ho) ==
    IF roots = <<>> THEN <<>>
    ELSE LET root == Head(roots)
             members == MembersOf(IterSet(ComponentOf(u, root), ho))
         IN  (IF Len(members) < 2 THEN <<>>
              ELSE <<MakeCluster(root, members, PairsFor(pm, root))>>)
             \o BuildClusters(u, pm, Tail(roots), ho)

\* cluster(scored_pairs) as a whole, for the hash order ho.
ClusterAll(pairs, ho) ==
    LET st == ClusterLoop([uf |-> UFNew, pair_map |-> <<>>], pairs)
    IN  BuildClusters(st.uf, st.pair_map, RootsInOrder(st.uf, st.uf.keys, {}), ho)

\* ------------------------------------------------------------------ SpecCluster

\* Bounds of the clustering inputs.
MaxPairs == 3

SrcStripe == <<"stripe">>
SrcPostgres == <<"postgres">>

\* Record ids; one holds a colon of its own.
IdsA == {<<"s1">>, <<"s2">>}
IdsB == {<<"p1">>, <<"p", ":", "2">>}

\* One score below the threshold and two above it.
ScoreValues == {4000, 6000, 9000}

NoDims == [email |-> 0, company_name |-> 0, temporal |-> 0, amount |-> 0]

\* Blocking pairs a record of one source with a record of another.
PairUniverse ==
    {[record_a_id |-> a, record_a_source |-> SrcStripe,
      record_b_id |-> b, record_b_source |-> SrcPostgres,
      total_score |-> sc, dimension_scores |-> NoDims] :
        a \in IdsA, b \in IdsB, sc \in ScoreValues}

\* No call of compute_all is under way.
MetricsIdle ==
    /\ tenant_id = ""
    /\ period_date = <<>>
    /\ entity_data = <<>>
    /\ previous_snapshots = <<>>
    /\ mpc = "idle"
    /\ midx = 0
    /\ results = [vals |-> <<>>, order |-> <<>>]
    /\ computed = <<>>
    /\ runs = 0
    /\ prior_computed = <<>>
    /\ wall_clock = 0

\* No resolution pipeline is under way.
ResolveIdle ==
    /\ sources_in = <<>>
    /\ min_score = 0
    /\ candidates = <<>>
    /\ resolved = <<>>
    /\ rpc = "idle"
    /\ rruns = 0
    /\ prior_clusters = <<>>
    /\ prior_entities = <<>>
    /\ entry_point = "tools"
    /\ entity_output = <<>>

PureIdle ==
    /\ call_args = <<>>
    /\ call_result = <<>>
    /\ call_pc = "idle"

InitCluster ==
    /\ scored_pairs \in SeqsUpTo(PairUniverse, MaxPairs)
    /\ cidx = 1
    /\ uf = UFNew
    /\ pair_map = <<>>
    /\ clusters = <<>>
    /\ cpc = "loop"
    /\ MetricsIdle
    /\ ResolveIdle
    /\ PureIdle

\* clustering.py 61-68: one iteration of the loop over scored_pairs.
UnionStep ==
    /\ cpc = "loop"
    /\ cidx <= Len(scored_pairs)
    /\ LET st == ClusterLoopBody([uf |-> uf, pair_map |-> pair_map], scored_pairs[cidx])
       IN  /\ uf' = st.uf
           /\ pair_map' = st.pair_map
    /\ cidx' = cidx + 1
    /\ UNCHANGED <<scored_pairs, clusters, cpc, mvars, rvars, pvars>>

\* clustering.py 70-95: components, members, confidence; the call returns.
ComponentsStep ==
    /\ cpc = "loop"
    /\ cidx > Len(scored_pairs)
    /\ \E ho \in Orders(Range(uf.keys)) :
          clusters' = BuildClusters(uf, pair_map, RootsInOrder(uf, uf.keys, {}), ho)
    /\ uf' = UFFindAll(uf)
    /\ cpc' = "done"
    /\ UNCHANGED <<scored_pairs, cidx, pair_map, mvars, rvars, pvars>>

NextCluster == UnionStep \/ ComponentsStep

SpecCluster == InitCluster /\ [][NextCluster]_vars

\* ------------------------------------------------------------------ clustering claims

\* The graph the claims speak of, defined without Union-Find: identities
\* are (source, record id), edges are the input pairs at or above the threshold.
IdA(pair) == <<pair.record_a_source, pair.record_a_id>>
IdB(pair) == <<pair.record_b_source, pair.record_b_id>>

StrongPairs(pairs) == {i \in 1..Len(pairs) : pairs[i].total_score >= HighConfidenceThreshold}

Neighbours(pairs, S) ==
    S \cup {IdB(pairs[i]) : i \in {j \in StrongPairs(pairs) : IdA(pairs[j]) \in S}}
      \cup {IdA(pairs[i]) : i \in {j \in StrongPairs(pairs) : IdB(pairs[j]) \in S}}

RECURSIVE Reachable(_, _)
Reachable(pairs, S) ==
    IF Neighbours(pairs, S) = S THEN S ELSE Reachable(pairs, Neighbours(pairs, S))

LinkedIds(pairs) ==
    {IdA(pairs[i]) : i \in StrongPairs(pairs)} \cup {IdB(pairs[i]) : i \in StrongPairs(pairs)}

GraphComponents(pairs) ==
    {c \in {Reachable(pairs, {n}) : n \in LinkedIds(pairs)} : Cardinality(c) >= 2}

MemberSets(cs) == {Range(cs[i].members) : i \in 1..Len(cs)}

Permuted(pairs, perm) == [i \in 1..Len(pairs) |-> pairs[perm[i]]]

\* C1: when cluster returns, its clusters are exactly the connected components
\* of size >= 2 of the graph of pairs at or above the threshold: every cluster
\* is a component, every component is a cluster, no identity is listed twice
\* or in two clusters, and no cluster has fewer than 2 members.
C1_ClustersAreComponents ==
    cpc = "done" =>
        /\ MemberSets(clusters) = GraphComponents(scored_pairs)
        /\ Cardinality(MemberSets(clusters)) = Len(clusters)
        /\ \A i \in 1..Len(clusters) :
              /\ Len(clusters[i].members) >= 2
              /\ Cardinality(Range(clusters[i].members)) = Len(clusters[i].members)
        /\ \A i, j \in 1..Len(clusters) :
              i # j => Range(clusters[i].members) \cap Range(clusters[j].members) = {}

\* A chain of two strong pairs forms a cluster of three while a weak pair
\* to a fourth identity links nothing.
C1_Witness ==
    /\ cpc = "done"
    /\ Len(clusters) = 1
    /\ Len(clusters[1].members) = 3
    /\ \E i \in 1..Len(scored_pairs) :
          /\ scored_pairs[i].total_score < HighConfidenceThreshold
          /\ IdB(scored_pairs[i]) \notin Range(clusters[1].members)

\* The scores of all strong input pairs whose two endpoints are members of c.
ContributingScores(pairs, c) ==
    LET idx == {i \in StrongPairs(pairs) :
                   IdA(pairs[i]) \in Range(c.members) /\ IdB(pairs[i]) \in Range(c.members)}
    IN  [sum |-> SumSeq([i \in 1..Len(pairs) |-> IF i \in idx THEN pairs[i].total_score ELSE 0]),
         n |-> Cardinality(idx),
         max |-> CHOOSE m \in {pairs[i].total_score : i \in idx} \cup {0} :
                    \A i \in idx : pairs[i].total_score <= m]

\* C2: every returned cluster reports the maximum and the mean of total_score
\* over all the strong input pairs inside it, whatever the order of the pairs.
C2_ConfidenceOverAllPairs ==
    cpc = "done" =>
        \A i \in 1..Len(clusters) :
            LET cs == ContributingScores(scored_pairs, clusters[i])
            IN  /\ clusters[i].max_confidence = cs.max
                /\ clusters[i].avg_confidence = Rat(cs.sum, cs.n)

\* C10: the set of member sets is the same for every permutation of the input.
C10_MembershipOrderIndependent ==
    cpc = "done" =>
        \A perm \in Orders(1..Len(scored_pairs)) :
            MemberSets(ClusterAll(Permuted(scored_pairs, perm), uf.keys)) = MemberSets(clusters)

\* Three strong pairs, the last joining two groups already formed, and a
\* permutation under which the root (cluster_id) is another key.
C10_Witness ==
    /\ cpc = "done"
    /\ Len(scored_pairs) = 3
    /\ Len(clusters) = 1
    /\ Len(clusters[1].members) = 4
    /\ \E perm \in Orders(1..3) :
          ClusterAll(Permuted(scored_pairs, perm), uf.keys)[1].cluster_id # clusters[1].cluster_id

\* ------------------------------------------------------------------ Python values

\* A value of an entity field, tagged with its Python type.
PyNone == [t |-> "none"]
PyInt(n) == [t |-> "int", v |-> n]
PyStr(x) == [t |-> "str", v |-> x]
PyBool(b) == [t |-> "bool", v |-> b]

\* dict.get(key) and dict.get(key, default) on a dict given as a function.
DictGet(dict, key) == IF key \in DOMAIN dict THEN dict[key] ELSE PyNone
DictGetOr(dict, key, default) == IF key \in DOMAIN dict THEN dict[key] ELSE default

\* bool(value)
Truthy(val) ==
    CASE val.t = "none" -> FALSE
      [] val.t = "bool" -> val.v
      [] val.t = "int" -> val.v # 0
      [] val.t = "str" -> val.v # ""

\* The strings float() accepts, with their values; any other string raises ValueError.
NumericStrings == ("250" :> 250)

\* float(value): [ok, v], ok false for the ValueError of a non-numeric string.
ToFloat(val) ==
    CASE val.t = "int" -> [ok |-> TRUE, v |-> val.v]
      [] val.t = "bool" -> [ok |-> TRUE, v |-> IF val.v THEN 1 ELSE 0]
      [] val.t = "str" -> IF val.v \in DOMAIN NumericStrings
                          THEN [ok |-> TRUE, v |-> NumericStrings[val.v]]
                          ELSE [ok |-> FALSE, v |-> 0]
      [] OTHER -> [ok |-> FALSE, v |-> 0]

\* ------------------------------------------------------------------ metric ontology

Var(name) == [op |-> "var", name |-> name]
Num(k) == [op |-> "num", k |-> k]
Bin(op, l, r) == [op |-> op, l |-> l, r |-> r]

FilterEq(key, expected) == [key |-> key, kind |-> "eq", expected |-> expected]
FilterTrue(key) == [key |-> key, kind |-> "truthy", expected |-> PyBool(TRUE)]

DirectDef(id, type, filter, field, decomposition) ==
    [metric_id |-> id, type |-> type, filter |-> filter, field |-> field,
     decomposition |-> decomposition]

FormulaDef(id, formula) ==
    [metric_id |-> id, type |-> "formula", formula |-> formula, decomposition |-> <<>>]

\* CORE_METRICS, in the insertion order of the dict.
CORE_METRICS ==
    << DirectDef("mrr", "sum", <<FilterEq("status", PyStr("active"))>>, "mrr_amount",
                 <<"new_mrr", "expansion_mrr", "contraction_mrr", "churn_mrr">>),
       DirectDef("new_mrr", "sum",
                 <<FilterEq("status", PyStr("active")), FilterTrue("created_in_period")>>,
                 "mrr_amount", <<>>),
       DirectDef("expansion_mrr", "sum_positive_delta",
                 <<FilterEq("status", PyStr("active")), FilterTrue("existing_customer")>>,
                 "mrr_amount", <<>>),
       DirectDef("contraction_mrr", "sum_negative_delta",
                 <<FilterEq("status", PyStr("active")), FilterTrue("existing_customer")>>,
                 "mrr_amount", <<>>),
       DirectDef("churn_mrr", "sum",
                 <<FilterEq("status", PyStr("canceled")), FilterTrue("canceled_in_period")>>,
                 "mrr_amount", <<>>),
       FormulaDef("nrr",
                  Bin("mul",
                      Bin("div",
                          Bin("sub", Bin("sub", Bin("add", Var("mrr"), Var("expansion_mrr")),
                                                Var("contraction_mrr")),
                                     Var("churn_mrr")),
                          Var("mrr_previous")),
                      Num(100))),
       DirectDef("active_customers", "count_distinct",
                 <<FilterEq("status", PyStr("active"))>>, "customer_entity_id", <<>>),
       FormulaDef("arpu", Bin("div", Var("mrr"), Var("active_customers"))),
       FormulaDef("quick_ratio",
                  Bin("div", Bin("add", Var("new_mrr"), Var("expansion_mrr")),
                             Bin("add", Var("contraction_mrr"), Var("churn_mrr")))),
       FormulaDef("logo_churn_rate",
                  Bin("mul", Bin("div", Var("churned_customers"), Var("active_customers_start")),
                             Num(100))) >>

MetricIds == {CORE_METRICS[i].metric_id : i \in 1..Len(CORE_METRICS)}

MetricEdge(parent, child, relationship) ==
    [parent |-> parent, child |-> child, relationship |-> relationship]

\* MetricDef.parent: "mrr" for the four components of mrr, None for the others.
MetricParent(metric_id) ==
    IF metric_id \in {"new_mrr", "expansion_mrr", "contraction_mrr", "churn_mrr"}
    THEN [some |-> TRUE, v |-> "mrr"] ELSE [some |-> FALSE]

\* An edge list with one formula_input edge written input first: nrr reaches
\* expansion_mrr through mrr, and expansion_mrr points back at nrr.
MetricDagWithBackEdge ==
    << MetricEdge("mrr", "new_mrr", "decomposition"),
       MetricEdge("mrr", "expansion_mrr", "decomposition"),
       MetricEdge("mrr", "contraction_mrr", "decomposition"),
       MetricEdge("mrr", "churn_mrr", "decomposition"),
       MetricEdge("nrr", "mrr", "formula_input"),
       MetricEdge("expansion_mrr", "nrr", "formula_input"),
       MetricEdge("nrr", "contraction_mrr", "formula_input"),
       MetricEdge("nrr", "churn_mrr", "formula_input"),
       MetricEdge("arpu", "mrr", "formula_input"),
       MetricEdge("arpu", "active_customers", "formula_input"),
       MetricEdge("quick_ratio", "new_mrr", "formula_input"),
       MetricEdge("quick_ratio", "expansion_mrr", "formula_input"),
       MetricEdge("quick_ratio", "contraction_mrr", "formula_input"),
       MetricEdge("quick_ratio", "churn_mrr", "formula_input") >>

METRIC_DAG ==
    << MetricEdge("mrr", "new_mrr", "decomposition"),
       MetricEdge("mrr", "expansion_mrr", "decomposition"),
       MetricEdge("mrr", "contraction_mrr", "decomposition"),
       MetricEdge("mrr", "churn_mrr", "decomposition"),
       MetricEdge("nrr", "mrr", "formula_input"),
       MetricEdge("nrr", "expansion_mrr", "formula_input"),
       MetricEdge("nrr", "contraction_mrr", "formula_input"),
       MetricEdge("nrr", "churn_mrr", "formula_input"),
       MetricEdge("arpu", "mrr", "formula_input"),
       MetricEdge("arpu", "active_customers", "formula_input"),
       MetricEdge("quick_ratio", "new_mrr", "formula_input"),
       MetricEdge("quick_ratio", "expansion_mrr", "formula_input"),
       MetricEdge("quick_ratio", "contraction_mrr", "formula_input"),
       MetricEdge("quick_ratio", "churn_mrr", "formula_input") >>

RECURSIVE ChildrenFrom(_, _)
ChildrenFrom(edges, metric_id) ==
    IF edges = <<>> THEN <<>>
    ELSE (IF Head(edges).parent = metric_id /\ Head(edges).relationship = "decomposition"
          THEN <<Head(edges).child>> ELSE <<>>) \o ChildrenFrom(Tail(edges), metric_id)

\* The children along every edge, whatever its relationship.
ChildrenOfAnyRelationship(metric_id) ==
    SelectSeq([i \in 1..Len(METRIC_DAG) |-> IF METRIC_DAG[i].parent = metric_id THEN METRIC_DAG[i].child ELSE ""], LAMBDA c : c # "")

get_decomposition_children(metric_id) == ChildrenFrom(METRIC_DAG, metric_id)

\* ------------------------------------------------------------------ MetricComputationEngine

\* One filter condition of _matches_filter, by the type of the expected value.
MatchesOne(entity, f) ==
    LET actual == DictGet(entity, f.key)
    IN  CASE f.kind = "in" -> actual \in f.expected
          [] f.kind = "truthy" -> Truthy(actual)
          [] OTHER -> actual = f.expected

_matches_filter(entity, filters) ==
    \A i \in 1..Len(filters) : MatchesOne(entity, filters[i])

_get_numeric_field(entity, field_name) ==
    LET val == DictGetOr(entity, field_name, PyInt(0))
    IN  IF val.t = "none" THEN 0
        ELSE IF ToFloat(val).ok THEN ToFloat(val).v ELSE 0

RECURSIVE Filtered(_, _)
Filtered(entities, filters) ==
    IF entities = <<>> THEN <<>>
    ELSE (IF _matches_filter(Head(entities), filters) THEN <<Head(entities)>> ELSE <<>>)
         \o Filtered(Tail(entities), filters)

Max2(a, b) == IF a >= b THEN a ELSE b
Min2(a, b) == IF a <= b THEN a ELSE b

\* The key count_distinct takes of an entity: e.get(field, e.get("entity_id", "")).
DistinctKey(e, field_name) == DictGetOr(e, field_name, DictGetOr(e, "entity_id", PyStr("")))

_compute_direct_metric(metric_def, entities) ==
    IF metric_def.type = "formula" THEN 0
    ELSE LET filtered == Filtered(entities, metric_def.filter)
             n == Len(filtered)
         IN  CASE metric_def.type = "sum" ->
                    SumSeq([i \in 1..n |-> _get_numeric_field(filtered[i], metric_def.field)])
               [] metric_def.type = "count_distinct" ->
                    Cardinality({DistinctKey(filtered[i], metric_def.field) : i \in 1..n})
               [] metric_def.type = "sum_positive_delta" ->
                    SumSeq([i \in 1..n |-> Max2(0, _get_numeric_field(filtered[i], "delta"))])
               [] metric_def.type = "sum_negative_delta" ->
                    Abs(SumSeq([i \in 1..n |-> Min2(0, _get_numeric_field(filtered[i], "delta"))]))
               [] OTHER -> 0

\* eval(formula, {"__builtins__": {}}, ctx): [ok, v] or [ok, err], operands left to right.
RECURSIVE Eval(_, _)
Eval(e, ctx) ==
    CASE e.op = "num" -> [ok |-> TRUE, v |-> RInt(e.k)]
      [] e.op = "var" -> IF e.name \in DOMAIN ctx THEN [ok |-> TRUE, v |-> ctx[e.name]]
                         ELSE [ok |-> FALSE, err |-> "NameError"]
      [] OTHER ->
           LET l == Eval(e.l, ctx)
               r == Eval(e.r, ctx)
           IN  IF ~l.ok THEN l
               ELSE IF ~r.ok THEN r
               ELSE CASE e.op = "add" -> [ok |-> TRUE, v |-> RAdd(l.v, r.v)]
                      [] e.op = "sub" -> [ok |-> TRUE, v |-> RSub(l.v, r.v)]
                      [] e.op = "mul" -> [ok |-> TRUE, v |-> RMul(l.v, r.v)]
                      [] e.op = "div" -> IF r.v.num = 0
                                         THEN [ok |-> FALSE, err |-> "ZeroDivisionError"]
                                         ELSE [ok |-> TRUE, v |-> RDiv(l.v, r.v)]

\* A handler that lets NameError through.
CaughtWithoutNameError == {"ZeroDivisionError", "TypeError"}

\* A handler that lets ZeroDivisionError through.
CaughtWithoutZeroDivision == {"TypeError", "NameError"}

\* except (ZeroDivisionError, TypeError, NameError)
CaughtErrors == {"ZeroDivisionError", "TypeError", "NameError"}

\* [raised, value]: the value returned, or raised when the exception is not caught.
_compute_formula_metric(metric_def, computed_values) ==
    LET r == Eval(metric_def.formula, computed_values)
    IN  IF r.ok THEN [raised |-> FALSE, value |-> r.v]
        ELSE IF r.err \in CaughtErrors THEN [raised |-> FALSE, value |-> RInt(0)]
        ELSE [raised |-> TRUE, value |-> RInt(0)]

\* previous_snapshots or {}
PreviousOf(snapshots) == IF snapshots.given THEN snapshots.map ELSE <<>>

\* Optional values: None, or a value.
None == [some |-> FALSE]
Some(x) == [some |-> TRUE, v |-> x]

\* previous.get(metric_id)
PrevOf(previous, metric_id) ==
    IF metric_id \in DOMAIN previous THEN Some(previous[metric_id]) ELSE None

\* A change that tests "if prev" where the code tests "prev is not None".
ChangeAbsoluteIfTruthy(value, prev) ==
    IF prev.some /\ prev.v.num # 0 THEN Some(RSub(value, prev.v)) ELSE None

\* (value - prev) if prev is not None else None
ChangeAbsolute(value, prev) ==
    IF prev.some THEN Some(RSub(value, prev.v)) ELSE None

\* ((value - prev) / prev * 100) if prev is not None and prev != 0 else None
ChangePercent(value, prev) ==
    IF prev.some /\ prev.v.num # 0
    THEN Some(RMul(RDiv(RSub(value, prev.v), prev.v), RInt(100)))
    ELSE None

\* results.get(child, 0.0)
ResultOr(res, child) == IF child \in DOMAIN res.vals THEN res.vals[child] ELSE RInt(0)

\* {child: results.get(child, 0.0) for child in children}, or None without children.
DecompositionOf(res, metric_id) ==
    LET children == get_decomposition_children(metric_id)
    IN  IF children = <<>> THEN None
        ELSE Some([c \in Range(children) |-> ResultOr(res, c)])

\* date.isoformat()
IsoFormat(d) == <<d[1], "-", d[2], "-", d[3]>>

\* A timestamp read from the clock instead of derived from period_date.
ComputedAtNow(date, clock) == <<"now", clock>>

\* computed_at of computation_meta: period_date.isoformat()
ComputedAt(date, clock) == IsoFormat(date)

MakeComputedMetric(res, metric_id, tenant, date, entities, previous, clock) ==
    LET value == res.vals[metric_id]
        prev == PrevOf(previous, metric_id)
    IN  [metric_id |-> metric_id, period_date |-> date, grain |-> "daily", value |-> value,
         previous_value |-> prev,
         change_absolute |-> ChangeAbsolute(value, prev),
         change_percent |-> ChangePercent(value, prev),
         decomposition |-> DecompositionOf(res, metric_id),
         computation_meta |-> [tenant_id |-> tenant, entity_count |-> Len(entities),
                               computed_at |-> ComputedAt(date, clock)]]

\* results[metric_id] = value, keeping the dict's insertion order.
PutResult(res, metric_id, value) ==
    [vals |-> (metric_id :> value) @@ res.vals,
     order |-> IF metric_id \in DOMAIN res.vals THEN res.order ELSE Append(res.order, metric_id)]

\* A first pass that takes every metric, formula or not.
DirectPassTakesAll(metric_def) == TRUE

\* computation.py 38: the first pass takes the metrics that are not formulas.
DirectPassTakes(metric_def) == metric_def.type # "formula"

\* computation.py 42: the second pass takes the formulas.
FormulaPassTakes(metric_def) == metric_def.type = "formula"

\* ------------------------------------------------------------------ SpecMetrics

\* Bounds of the metric inputs.
MaxEntities == 3
MaxRuns == 2

Entity(status, amount) == ("status" :> PyStr(status)) @@ ("mrr_amount" :> amount)

\* Entities: with and without ids, flags and deltas, a numeric string and a
\* value float() rejects.
EntityUniverse ==
    { Entity("active", PyInt(1000)),
      Entity("active", PyInt(2000)),
      Entity("canceled", PyInt(500)),
      Entity("active", PyStr("250")) @@ ("customer_entity_id" :> PyStr("c1"))
          @@ ("existing_customer" :> PyBool(TRUE)) @@ ("delta" :> PyInt(-100)),
      Entity("canceled", PyInt(100)) @@ ("entity_id" :> PyStr("e4"))
          @@ ("canceled_in_period" :> PyBool(TRUE)),
      Entity("active", PyStr("n/a")) @@ ("entity_id" :> PyStr("e2"))
          @@ ("created_in_period" :> PyBool(TRUE)) @@ ("existing_customer" :> PyInt(1))
          @@ ("delta" :> PyInt(50)) }

\* previous_snapshots: None, or a dict of some ids, a zero among the values,
\* or a dict that also holds the names the nrr and logo_churn_rate formulas use.
SnapshotUniverse ==
    { [given |-> FALSE, map |-> <<>>],
      [given |-> TRUE, map |-> ("mrr" :> RInt(800))],
      [given |-> TRUE, map |-> ("mrr" :> RInt(0)) @@ ("arpu" :> RInt(500))
                                 @@ ("quick_ratio" :> Rat(1, 2))],
      [given |-> TRUE, map |-> ("mrr" :> RInt(800)) @@ ("mrr_previous" :> RInt(800))
                                 @@ ("churned_customers" :> RInt(1))
                                 @@ ("active_customers_start" :> RInt(10))] }

TenantIds == {"tenant-1"}
PeriodDates == {<<"2025", "01", "15">>}

\* No call of cluster is under way.
ClusterIdle ==
    /\ scored_pairs = <<>>
    /\ cidx = 0
    /\ uf = UFNew
    /\ pair_map = <<>>
    /\ clusters = <<>>
    /\ cpc = "idle"

InitMetrics ==
    /\ tenant_id \in TenantIds
    /\ period_date \in PeriodDates
    /\ entity_data \in SeqsUpTo(EntityUniverse, MaxEntities)
    /\ previous_snapshots \in SnapshotUniverse
    /\ mpc = "direct"
    /\ midx = 1
    /\ results = [vals |-> <<>>, order |-> <<>>]
    /\ computed = <<>>
    /\ runs = 1
    /\ prior_computed = <<>>
    /\ wall_clock = 0
    /\ ClusterIdle
    /\ ResolveIdle
    /\ PureIdle

\* computation.py 37-39: one iteration of the first loop over CORE_METRICS.
DirectStep ==
    /\ mpc = "direct"
    /\ LET metric_def == CORE_METRICS[midx]
       IN  results' = IF DirectPassTakes(metric_def)
                      THEN PutResult(results, metric_def.metric_id,
                                     RInt(_compute_direct_metric(metric_def, entity_data)))
                      ELSE results
    /\ IF midx = Len(CORE_METRICS)
       THEN mpc' = "formula" /\ midx' = 1
       ELSE mpc' = mpc /\ midx' = midx + 1
    /\ UNCHANGED <<tenant_id, period_date, entity_data, previous_snapshots, computed, runs,
                   prior_computed, wall_clock, cvars, rvars, pvars>>

\* computation.py 41-43: one iteration of the second loop; an exception
\* that _compute_formula_metric does not catch ends the call.
FormulaStep ==
    /\ mpc = "formula"
    /\ LET metric_def == CORE_METRICS[midx]
           out == _compute_formula_metric(metric_def, results.vals)
       IN  IF FormulaPassTakes(metric_def) /\ out.raised
           THEN /\ mpc' = "raised"
                /\ UNCHANGED <<results, midx>>
           ELSE /\ results' = IF FormulaPassTakes(metric_def)
                              THEN PutResult(results, metric_def.metric_id, out.value)
                              ELSE results
                /\ IF midx = Len(CORE_METRICS)
                   THEN mpc' = "assemble" /\ midx' = 1
                   ELSE mpc' = mpc /\ midx' = midx + 1
    /\ UNCHANGED <<tenant_id, period_date, entity_data, previous_snapshots, computed, runs,
                   prior_computed, wall_clock, cvars, rvars, pvars>>

\* computation.py 45-63: the list of ComputedMetric, in the order of results; the call returns.
AssembleStep ==
    /\ mpc = "assemble"
    /\ computed' = [i \in 1..Len(results.order) |->
                      MakeComputedMetric(results, results.order[i], tenant_id, period_date,
                                         entity_data, PreviousOf(previous_snapshots), wall_clock)]
    /\ mpc' = "done"
    /\ UNCHANGED <<tenant_id, period_date, entity_data, previous_snapshots, midx, results, runs,
                   prior_computed, wall_clock, cvars, rvars, pvars>>

\* The caller calls compute_all again, later, with the same arguments.
Rerun ==
    /\ mpc = "done"
    /\ runs < MaxRuns
    /\ prior_computed' = computed
    /\ computed' = <<>>
    /\ results' = [vals |-> <<>>, order |-> <<>>]
    /\ mpc' = "direct"
    /\ midx' = 1
    /\ runs' = runs + 1
    /\ wall_clock' = wall_clock + 1
    /\ UNCHANGED <<tenant_id, period_date, entity_data, previous_snapshots, cvars, rvars, pvars>>

NextMetrics == DirectStep \/ FormulaStep \/ AssembleStep \/ Rerun

SpecMetrics == InitMetrics /\ [][NextMetrics]_vars

\* ------------------------------------------------------------------ metric claims

\* The value compute_all reports for metric_id (the first entry of that id).
Reported(metric_id) ==
    computed[CHOOSE i \in 1..Len(computed) :
                 /\ computed[i].metric_id = metric_id
                 /\ \A j \in 1..(i - 1) : computed[j].metric_id # metric_id].value

ReportedIds == {computed[i].metric_id : i \in 1..Len(computed)}

SpecExampleEntities ==
    << Entity("active", PyInt(1000)), Entity("active", PyInt(2000)),
       Entity("canceled", PyInt(500)) >>

\* C4: for the entity list [{active, 1000}, {active, 2000}, {canceled, 500}]
\* compute_all reports mrr == 3000.0 and active_customers == 2.0.
C4_SpecExample ==
    (mpc = "done" /\ entity_data = SpecExampleEntities) =>
        /\ Reported("mrr") = RInt(3000)
        /\ Reported("active_customers") = RInt(2)

\* C5: a formula whose evaluation fails (zero denominator, a name with no
\* computed value) is reported as 0.0; compute_all never raises and still
\* reports every metric of the registry.
C5_FormulaFailureYieldsZero ==
    /\ mpc # "raised"
    /\ mpc = "done" =>
          /\ ReportedIds = MetricIds
          /\ (RAdd(Reported("contraction_mrr"), Reported("churn_mrr")) = RInt(0)
                 => Reported("quick_ratio") = RInt(0))
          /\ (Reported("active_customers") = RInt(0) => Reported("arpu") = RInt(0))
          /\ Reported("nrr") = RInt(0)
          /\ Reported("logo_churn_rate") = RInt(0)

\* quick_ratio divides a non-zero numerator by zero while arpu of the same
\* batch evaluates to a non-zero value.
C5_Witness ==
    /\ mpc = "done"
    /\ RAdd(Reported("contraction_mrr"), Reported("churn_mrr")) = RInt(0)
    /\ RAdd(Reported("new_mrr"), Reported("expansion_mrr")) # RInt(0)
    /\ Reported("quick_ratio") = RInt(0)
    /\ Reported("arpu") # RInt(0)

IsFormulaId(metric_id) ==
    \E i \in 1..Len(CORE_METRICS) :
        CORE_METRICS[i].metric_id = metric_id /\ CORE_METRICS[i].type = "formula"

C7_ChangeTracking ==
    mpc = "done" =>
        \A i \in 1..Len(computed) :
            LET cm == computed[i]
                previous == IF previous_snapshots.given THEN previous_snapshots.map ELSE <<>>
            IN  IF cm.metric_id \in DOMAIN previous
                THEN LET p == previous[cm.metric_id]
                     IN  /\ cm.previous_value = Some(p)
                         /\ cm.change_absolute.some
                         /\ RAdd(cm.change_absolute.v, p) = cm.value
                         /\ IF p.num = 0 THEN cm.change_percent = None
                            ELSE /\ cm.change_percent.some
                                 /\ RMul(cm.change_percent.v, p)
                                       = RMul(RSub(cm.value, p), RInt(100))
                ELSE /\ cm.previous_value = None
                     /\ cm.change_absolute = None
                     /\ cm.change_percent = None

\* One batch holds a metric with previous value 0 and a changed value, a
\* metric with a non-zero previous value and a non-zero percent change, and
\* a metric without previous value.
C7_Witness ==
    /\ mpc = "done"
    /\ \E i, j, k \in 1..Len(computed) :
          /\ computed[i].previous_value = Some(RInt(0))
          /\ computed[i].value # RInt(0)
          /\ computed[i].change_percent = None
          /\ computed[j].change_percent.some
          /\ computed[j].change_percent.v # RInt(0)
          /\ computed[k].previous_value = None

\* C8: a second call of compute_all with the same tenant, date, entities and
\* previous values, made later, returns the same list as the first.
C8_Idempotent ==
    (mpc = "done" /\ runs >= 2) => computed = prior_computed

\* The second call has returned, on a non-empty entity list with previous
\* values, after the clock has moved on.
C8_Witness ==
    /\ mpc = "done"
    /\ runs = 2
    /\ wall_clock > 0
    /\ Len(entity_data) >= 2
    /\ previous_snapshots.given
    /\ Len(prior_computed) = Cardinality(MetricIds)

\* ------------------------------------------------------------------ strings

\* str.lower() on one token; a token without upper-case letters is its own image.
LowerTable == ("A" :> "a") @@ ("ACME.COM" :> "acme.com") @@ ("ACME" :> "acme") @@ ("Acme" :> "acme")

LowerToken(tok) == IF tok \in DOMAIN LowerTable THEN LowerTable[tok] ELSE tok

Lower(str) == [i \in 1..Len(str) |-> LowerToken(str[i])]

\* str.strip(): leading and trailing blanks removed.
RECURSIVE LStrip(_)
LStrip(str) == IF str # <<>> /\ Head(str) = " " THEN LStrip(Tail(str)) ELSE str

RECURSIVE RStrip(_)
RStrip(str) ==
    IF str # <<>> /\ str[Len(str)] = " " THEN RStrip(SubSeq(str, 1, Len(str) - 1)) ELSE str

Strip(str) == RStrip(LStrip(str))

HasToken(str, tok) == \E i \in 1..Len(str) : str[i] = tok

FirstIndex(str, tok) ==
    CHOOSE i \in 1..Len(str) : str[i] = tok /\ \A j \in 1..(i - 1) : str[j] # tok

\* ------------------------------------------------------------------ normalizers (blocking.py)

\* Lower-cased part after "@"; None for an empty input or one without "@".
normalize_email_domain(email) ==
    IF ~email.some THEN None
    ELSE IF email.v = <<>> \/ ~HasToken(email.v, "@") THEN None
    ELSE Some(Lower(SubSeq(email.v, FirstIndex(email.v, "@") + 1, Len(email.v))))

LegalSuffixes == {"inc", "inc.", "corp", "corp.", "corporation", "llc", "ltd", "ltd."}

RECURSIVE DropSuffixes(_)
DropSuffixes(str) ==
    IF str # <<>> /\ str[Len(str)] \in LegalSuffixes \cup {" "}
    THEN DropSuffixes(SubSeq(str, 1, Len(str) - 1)) ELSE str

\* Lower-cased, trailing legal suffixes dropped, blanks trimmed; "" for None or "".
normalize_company_name(name) ==
    IF ~name.some THEN <<>> ELSE Strip(DropSuffixes(Lower(name.v)))

\* ------------------------------------------------------------------ scoring.py

\* DIMENSION_WEIGHTS, in percent, in the order of the dict.
DIMENSION_WEIGHTS ==
    << [dim |-> "email", weight |-> 35], [dim |-> "company_name", weight |-> 25],
       [dim |-> "domain", weight |-> 15], [dim |-> "temporal", weight |-> 10],
       [dim |-> "amount", weight |-> 10], [dim |-> "phone", weight |-> 5] >>

\* "not x" for an optional str: None or "".
Missing(x) == ~x.some \/ x.v = <<>>

\* score_email: [score, method]; a dimension score is in 1/1000000.
score_email(email_a, email_b) ==
    IF Missing(email_a) \/ Missing(email_b) THEN [score |-> 0, method |-> "no_email"]
    ELSE LET a == Lower(Strip(email_a.v))
             b == Lower(Strip(email_b.v))
             domain_a == normalize_email_domain(Some(a))
             domain_b == normalize_email_domain(Some(b))
         IN  IF a = b THEN [score |-> 1000000, method |-> "email_exact"]
             ELSE IF ~Missing(domain_a) /\ ~Missing(domain_b) /\ domain_a = domain_b
                  THEN [score |-> 800000, method |-> "email_domain"]
             ELSE [score |-> 0, method |-> "email_mismatch"]

\* fuzz.WRatio of some pairs of lower-cased names, in 1/10000 of a percent:
\* 2 * matching / (len a + len b) where one name extends the other by a
\* character, 0.9 * partial ratio where it is more than 1.5 times as long.
FuzzTable ==
    (<<<<"acme", " ", "international", " ", "group">>,
       <<"acme", " ", "international", " ", "groups">>>> :> 979592)
    @@ (<<<<"acme", " ", "corporation", " ", "ltd">>,
          <<"acme", " ", "corporation", " ", "ltd.">>>> :> 975610)
    @@ (<<<<"acme", " ", "inc">>, <<"acme", " ", "inc.">>>> :> 941176)
    @@ (<<<<"acme", " ", "corporation">>, <<"acme", " ", "corp">>>> :> 900000)
    @@ (<<<<"acme">>, <<"acne">>>> :> 750000)

\* fuzz.WRatio: 100 for equal strings, symmetric, 0 for strings without a
\* common character (every pair of the model that is not in the table).
WRatio(a, b) ==
    IF a = b THEN 1000000
    ELSE IF <<a, b>> \in DOMAIN FuzzTable THEN FuzzTable[<<a, b>>]
    ELSE IF <<b, a>> \in DOMAIN FuzzTable THEN FuzzTable[<<b, a>>]
    ELSE 0

\* A threshold test that lets every similarity through as it is.
ScoreNameNoThresholds(name_a, name_b) ==
    IF Missing(name_a) \/ Missing(name_b) THEN [score |-> 0, method |-> "no_name"]
    ELSE [score |-> WRatio(Lower(name_a.v), Lower(name_b.v)), method |-> "name_fuzzy"]

score_company_name(name_a, name_b) ==
    IF Missing(name_a) \/ Missing(name_b) THEN [score |-> 0, method |-> "no_name"]
    ELSE LET similarity == WRatio(Lower(name_a.v), Lower(name_b.v))
         IN  IF similarity >= 950000 THEN [score |-> 1000000, method |-> "name_exact"]
             ELSE IF similarity >= 800000 THEN [score |-> similarity, method |-> "name_fuzzy"]
             ELSE [score |-> 0, method |-> "name_mismatch"]

\* datetime.fromisoformat: the strings it parses, as a count of half days.
Timestamps ==
    (<<"2024-01-15">> :> 0) @@ (<<"2024-01-15T12:00">> :> 1) @@ (<<"2024-01-16">> :> 2)
    @@ (<<"2024-01-17">> :> 4) @@ (<<"2024-01-18">> :> 6) @@ (<<"2024-01-19">> :> 8)
    @@ (<<"2024-06-15">> :> 304) @@ (<<"2024-01-16T00:00:00Z">> :> 2)

\* The strings that parse to a datetime with a time zone; subtracting a
\* datetime without one from it raises TypeError.
AwareTimestamps == {<<"2024-01-16T00:00:00Z">>}

ToleranceDays == 3

\* A decay over tolerance_days instead of tolerance_days + 1.
ScoreTemporalToZero(ts_a, ts_b) ==
    IF Missing(ts_a) \/ Missing(ts_b) THEN [score |-> 0, method |-> "no_timestamp"]
    ELSE IF ts_a.v \notin DOMAIN Timestamps \/ ts_b.v \notin DOMAIN Timestamps
         THEN [score |-> 0, method |-> "temporal_mismatch"]
    ELSE IF (ts_a.v \in AwareTimestamps) # (ts_b.v \in AwareTimestamps)
         THEN [score |-> 0, method |-> "temporal_mismatch"]
    ELSE LET delta == Abs((Timestamps[ts_a.v] - Timestamps[ts_b.v]) \div 2)
         IN  IF delta <= ToleranceDays
             THEN [score |-> 1000000 - (delta * 1000000) \div ToleranceDays,
                   method |-> "temporal_match"]
             ELSE [score |-> 0, method |-> "temporal_mismatch"]

\* timedelta.days is the floor of the difference in days, so \div 2 on half days.
score_temporal(ts_a, ts_b) ==
    IF Missing(ts_a) \/ Missing(ts_b) THEN [score |-> 0, method |-> "no_timestamp"]
    ELSE IF ts_a.v \notin DOMAIN Timestamps \/ ts_b.v \notin DOMAIN Timestamps
         THEN [score |-> 0, method |-> "temporal_mismatch"]
    ELSE IF (ts_a.v \in AwareTimestamps) # (ts_b.v \in AwareTimestamps)
         THEN [score |-> 0, method |-> "temporal_mismatch"]
    ELSE LET delta == Abs((Timestamps[ts_a.v] - Timestamps[ts_b.v]) \div 2)
         IN  IF delta <= ToleranceDays
             THEN [score |-> 1000000 - (delta * 1000000) \div (ToleranceDays + 1),
                   method |-> "temporal_match"]
             ELSE [score |-> 0, method |-> "temporal_mismatch"]

\* float(): the strings it parses.
Amounts == (<<"0">> :> 0) @@ (<<"100">> :> 100) @@ (<<"105">> :> 105)

\* score_amount on two floats (None: missing), tolerance_pct 0.05.
score_amount(amount_a, amount_b) ==
    IF ~amount_a.some \/ ~amount_b.some THEN [score |-> 0, method |-> "no_amount"]
    ELSE LET a == amount_a.v
             b == amount_b.v
             max_val == Max2(Abs(a), Abs(b))
         IN  IF a = 0 /\ b = 0 THEN [score |-> 500000, method |-> "both_zero"]
             ELSE IF Abs(a - b) * 100 <= 5 * max_val
                  THEN [score |-> 1000000, method |-> "amount_exact"]
             ELSE IF Abs(a - b) * 100 <= 10 * max_val
                  THEN [score |-> 700000, method |-> "amount_close"]
             ELSE [score |-> 0, method |-> "amount_mismatch"]

\* The amount dimension of score_pair: float(amt) if amt else None, a
\* ValueError scoring 0.
AmountDimension(amt_a, amt_b) ==
    IF (~Missing(amt_a) /\ amt_a.v \notin DOMAIN Amounts)
       \/ (~Missing(amt_b) /\ amt_b.v \notin DOMAIN Amounts)
    THEN [score |-> 0, method |-> "amount_parse_error"]
    ELSE score_amount(IF Missing(amt_a) THEN None ELSE Some(Amounts[amt_a.v]),
                      IF Missing(amt_b) THEN None ELSE Some(Amounts[amt_b.v]))

\* record.get("data", record)
DataOf(record) == record.data

\* _get_field: the first of field_names with a value that is not None.
RECURSIVE _get_field(_, _)
_get_field(record, field_names) ==
    IF field_names = <<>> THEN None
    ELSE IF Head(field_names) \in DOMAIN DataOf(record)
            /\ DataOf(record)[Head(field_names)].some
         THEN DataOf(record)[Head(field_names)]
    ELSE _get_field(record, Tail(field_names))

EmailFields == <<"email", "email_address", "owner_email", "contact_email">>
NameFields == <<"name", "company_name", "company", "account_name">>
TimeFields == <<"created", "created_at", "signup_date">>
AmountFields == <<"mrr", "amount", "revenue", "plan_amount">>

\* dimension_scores.get(dim, 0.0)
DimensionOr(dimension_scores, dim) ==
    IF dim \in DOMAIN dimension_scores THEN dimension_scores[dim] ELSE 0

\* A total cut off after 4 decimals.
Truncate4(total) == total \div 10000

\* round(total, 4), total in 1/100000000.
Round4(total) == (total + 5000) \div 10000

\* sum(dimension_scores.get(dim, 0.0) * weight ...), in 1/100000000.
WeightedSum(dimension_scores) ==
    SumSeq([i \in 1..Len(DIMENSION_WEIGHTS) |->
              DimensionOr(dimension_scores, DIMENSION_WEIGHTS[i].dim) * DIMENSION_WEIGHTS[i].weight])

TotalOf(dimension_scores) == Round4(WeightedSum(dimension_scores))

score_pair(record_a, record_b, candidate) ==
    LET dimension_scores ==
            [email |-> score_email(_get_field(record_a, EmailFields),
                                   _get_field(record_b, EmailFields)).score,
             company_name |-> score_company_name(_get_field(record_a, NameFields),
                                                 _get_field(record_b, NameFields)).score,
             temporal |-> score_temporal(_get_field(record_a, TimeFields),
                                         _get_field(record_b, TimeFields)).score,
             amount |-> AmountDimension(_get_field(record_a, AmountFields),
                                        _get_field(record_b, AmountFields)).score]
    IN  [record_a_id |-> candidate.record_a_id, record_a_source |-> candidate.record_a_source,
         record_b_id |-> candidate.record_b_id, record_b_source |-> candidate.record_b_source,
         total_score |-> TotalOf(dimension_scores), dimension_scores |-> dimension_scores]

\* score_candidates: the candidates whose two records are known and whose
\* total reaches the threshold, in the order of the candidates.
RECURSIVE score_candidates(_, _, _)
score_candidates(cands, records_by_id, threshold) ==
    IF cands = <<>> THEN <<>>
    ELSE LET c == Head(cands)
             ka == FormatKey(c.record_a_source, c.record_a_id)
             kb == FormatKey(c.record_b_source, c.record_b_id)
         IN  (IF ka \in DOMAIN records_by_id /\ kb \in DOMAIN records_by_id
              THEN LET ps == score_pair(records_by_id[ka], records_by_id[kb], c)
                   IN  IF ps.total_score >= threshold THEN <<ps>> ELSE <<>>
              ELSE <<>>)
             \o score_candidates(Tail(cands), records_by_id, threshold)

\* ------------------------------------------------------------------ blocking (blocking.py)

EmailDomainKey(record) ==
    LET d == normalize_email_domain(_get_field(record, EmailFields))
    IN  IF d.some THEN d.v ELSE <<>>

CompanyNameKey(record) == normalize_company_name(_get_field(record, NameFields))

\* The blocking key of a record under one strategy; <<>> when it has none.
BlockingKey(strategy, record) ==
    IF strategy = "email_domain" THEN EmailDomainKey(record) ELSE CompanyNameKey(record)

\* The candidates of one blocking key: every cross-side pair of records
\* that share a non-empty key, side a outermost.
KeyCandidates(records_a, source_a, records_b, source_b, strategy) ==
    LET n == Len(records_a)
        m == Len(records_b)
        hit(i, j) == /\ BlockingKey(strategy, records_a[i]) # <<>>
                     /\ BlockingKey(strategy, records_a[i]) = BlockingKey(strategy, records_b[j])
        cell(k) == LET i == ((k - 1) \div m) + 1
                       j == ((k - 1) % m) + 1
                   IN  IF hit(i, j)
                       THEN <<[record_a_id |-> records_a[i].record_id, record_a_source |-> source_a,
                               record_b_id |-> records_b[j].record_id, record_b_source |-> source_b,
                               blocking_strategy |-> strategy]>>
                       ELSE <<>>
        Flat[k \in 0..(n * m)] == IF k = 0 THEN <<>> ELSE Flat[k - 1] \o cell(k)
    IN  Flat[n * m]

\* BlockingEngine.generate_candidates: the email-domain index, then the
\* company-name index; a pair found by both is emitted by both.
generate_candidates(records_a, source_a, records_b, source_b) ==
    KeyCandidates(records_a, source_a, records_b, source_b, "email_domain")
    \o KeyCandidates(records_a, source_a, records_b, source_b, "company_name")

\* ------------------------------------------------------------------ canonical.py

SOURCE_PRIORITY ==
    (<<"stripe">> :> 3) @@ (<<"postgres">> :> 2) @@ (<<"mysql">> :> 2) @@ (<<"hubspot">> :> 1)
    @@ (<<"salesforce">> :> 1) @@ (<<"csv">> :> 1)

FIELD_SOURCE_PRIORITY ==
    ("email" :> << <<"stripe">>, <<"hubspot">>, <<"postgres">> >>)
    @@ ("company_name" :> << <<"hubspot">>, <<"salesforce">>, <<"postgres">>, <<"stripe">> >>)
    @@ ("mrr" :> << <<"stripe">> >>)
    @@ ("plan" :> << <<"stripe">> >>)
    @@ ("seats" :> << <<"postgres">> >>)
    @@ ("created_at" :> << <<"stripe">>, <<"postgres">> >>)

\* SOURCE_PRIORITY.get(source_type, 0)
PriorityOf(source_type) ==
    IF source_type \in DOMAIN SOURCE_PRIORITY THEN SOURCE_PRIORITY[source_type] ELSE 0

\* field_name.startswith("_"), for the field names of the model.
IsReservedField(field_name) == field_name \in {"_sources", "_source_count", "_confidence"}

\* field_sources[field_name]: the (priority, source, value) triples of the
\* members that hold a value for the field, in the order of cluster.members.
RECURSIVE FieldSources(_, _, _)
FieldSources(members, records_by_key, field_name) ==
    IF members = <<>> THEN <<>>
    ELSE LET source_type == Head(members)[1]
             key == FormatKey(source_type, Head(members)[2])
             has == /\ key \in DOMAIN records_by_key
                    /\ field_name \in DOMAIN DataOf(records_by_key[key])
                    /\ DataOf(records_by_key[key])[field_name].some
                    /\ ~IsReservedField(field_name)
         IN  (IF has THEN <<[priority |-> PriorityOf(source_type), source |-> source_type,
                             value |-> DataOf(records_by_key[key])[field_name].v]>>
              ELSE <<>>)
             \o FieldSources(Tail(members), records_by_key, field_name)

\* The fields seen on any member.
FieldsOf(members, records_by_key) ==
    {f \in UNION {DOMAIN DataOf(records_by_key[k]) : k \in DOMAIN records_by_key} :
        FieldSources(members, records_by_key, f) # <<>>}

FirstFrom(field_sources, source) ==
    field_sources[CHOOSE i \in 1..Len(field_sources) :
                      /\ field_sources[i].source = source
                      /\ \A j \in 1..(i - 1) : field_sources[j].source # source].value

\* Lines 50-58: the value of the first preferred source that has one, or None.
RECURSIVE PreferredValue(_, _)
PreferredValue(field_sources, priority_order) ==
    IF priority_order = <<>> THEN None
    ELSE IF \E i \in 1..Len(field_sources) : field_sources[i].source = Head(priority_order)
         THEN Some(FirstFrom(field_sources, Head(priority_order)))
    ELSE PreferredValue(field_sources, Tail(priority_order))

\* An unstable sort: among equal priorities the last one comes first.
HighestPriorityLastOfTies(field_sources) ==
    field_sources[CHOOSE i \in 1..Len(field_sources) :
                      /\ \A j \in 1..Len(field_sources) :
                            field_sources[j].priority <= field_sources[i].priority
                      /\ \A j \in (i + 1)..Len(field_sources) :
                            field_sources[j].priority < field_sources[i].priority].value

\* Lines 60-62: a stable sort by priority, descending, then the first value.
HighestPriorityValue(field_sources) ==
    field_sources[CHOOSE i \in 1..Len(field_sources) :
                      /\ \A j \in 1..Len(field_sources) :
                            field_sources[j].priority <= field_sources[i].priority
                      /\ \A j \in 1..(i - 1) :
                            field_sources[j].priority < field_sources[i].priority].value

MergedValue(field_sources, field_name) ==
    LET preferred == IF field_name \in DOMAIN FIELD_SOURCE_PRIORITY
                     THEN PreferredValue(field_sources, FIELD_SOURCE_PRIORITY[field_name])
                     ELSE None
    IN  IF preferred.some THEN preferred.v ELSE HighestPriorityValue(field_sources)

compute_canonical_record(cluster, records_by_key) ==
    [fields |-> [f \in FieldsOf(cluster.members, records_by_key) |->
                    MergedValue(FieldSources(cluster.members, records_by_key, f), f)],
     _sources |-> [i \in 1..Len(cluster.members) |->
                      [source_type |-> cluster.members[i][1], record_id |-> cluster.members[i][2]]],
     _source_count |-> Len(cluster.members),
     _confidence |-> cluster.avg_confidence]

\* ------------------------------------------------------------------ SpecResolve

\* Bound of the pipeline inputs.
MaxRecordsPerSource == 1

Email(local, domain) == Some(<<local, "@", domain>>)

\* The data of a record: email and company name, present or not.
DataUniverse ==
    { "email" :> Email("a", "acme.com"),
      "email" :> Email("b", "acme.com"),
      ("email" :> Email("A", "ACME.COM")) @@ ("name" :> Some(<<"Acme">>)),
      ("email" :> Email("a", "acme.com")) @@ ("name" :> Some(<<"ACME">>)),
      ("email" :> None) @@ ("name" :> Some(<<"Acme">>)),
      <<>> }

\* The two sources of a run, one above the other in SOURCE_PRIORITY or level with it.
SourcePairs == { <<<<"stripe">>, <<"postgres">>>>, <<<<"hubspot">>, <<"csv">>>> }

\* The thresholds handed to score_candidates: the default and a lower one.
Thresholds == {3000, 5000}

RecordsOf(source, prefix, datas) ==
    [i \in 1..Len(datas) |->
        [record_id |-> <<prefix, i>>, source_type |-> source, data |-> datas[i]]]

\* records_by_id of the callers: f"{source}:{record_id}" -> record.
RecordsById ==
    LET all == sources_in.a.records \o sources_in.b.records
    IN  [k \in {FormatKey(all[i].source_type, all[i].record_id) : i \in 1..Len(all)} |->
            all[CHOOSE i \in 1..Len(all) :
                    /\ FormatKey(all[i].source_type, all[i].record_id) = k
                    /\ \A j \in (i + 1)..Len(all) :
                          FormatKey(all[j].source_type, all[j].record_id) # k]]

\* The callers of the pipeline: cli analyze, tools resolve_entities, mcp resolve_entities.
EntryPoints == {"cli", "tools", "mcp"}

\* The keys of records_by_id in insertion order: each key where it first occurs.
InputKeys ==
    LET all == sources_in.a.records \o sources_in.b.records
        key(i) == FormatKey(all[i].source_type, all[i].record_id)
        Keys[n \in 0..Len(all)] ==
            IF n = 0 THEN <<>>
            ELSE IF \E j \in 1..(n - 1) : key(j) = key(n) THEN Keys[n - 1]
            ELSE Append(Keys[n - 1], key(n))
    IN  Keys[Len(all)]

\* matched_keys: f"{src}:{rid}" of every member of every cluster.
MatchedKeys(cls) ==
    UNION {{FormatKey(cls[i].members[j][1], cls[i].members[j][2]) :
               j \in 1..Len(cls[i].members)} : i \in 1..Len(cls)}

\* The entity a caller makes of a record that is in no cluster.
PassThroughEntity(entry, rec) ==
    IF entry = "tools"
    THEN [fields |-> DataOf(rec),
          _sources |-> <<[source_type |-> rec.source_type, record_id |-> rec.record_id]>>,
          _source_count |-> 1,
          _confidence |-> RInt(10000)]
    ELSE [fields |-> DataOf(rec)]

\* The loop over records_by_id.items() after the clusters; the cli has none.
RECURSIVE PassThroughEntities(_, _, _, _)
PassThroughEntities(entry, keys, matched, records_by_id) ==
    IF entry = "cli" \/ keys = <<>> THEN <<>>
    ELSE (IF Head(keys) \in matched THEN <<>>
          ELSE <<PassThroughEntity(entry, records_by_id[Head(keys)])>>)
         \o PassThroughEntities(entry, Tail(keys), matched, records_by_id)

InitResolve ==
    /\ \E sp \in SourcePairs :
       \E da, db \in UNION {[1..k -> DataUniverse] : k \in 1..MaxRecordsPerSource} :
          sources_in = [a |-> [source |-> sp[1], records |-> RecordsOf(sp[1], "a", da)],
                        b |-> [source |-> sp[2], records |-> RecordsOf(sp[2], "b", db)]]
    /\ min_score \in Thresholds
    /\ candidates = <<>>
    /\ resolved = <<>>
    /\ rpc = "block"
    /\ rruns = 1
    /\ prior_clusters = <<>>
    /\ prior_entities = <<>>
    /\ entry_point \in EntryPoints
    /\ entity_output = <<>>
    /\ ClusterIdle
    /\ MetricsIdle
    /\ PureIdle

\* blocking.generate_candidates on the two sources.
BlockStep ==
    /\ rpc = "block"
    /\ candidates' = generate_candidates(sources_in.a.records, sources_in.a.source,
                                         sources_in.b.records, sources_in.b.source)
    /\ rpc' = "score"
    /\ UNCHANGED <<sources_in, min_score, resolved, rruns, prior_clusters, prior_entities,
                   entry_point, entity_output, cvars, mvars, pvars>>

\* scoring.score_candidates; its result is handed to clustering.cluster.
ScoreStep ==
    /\ rpc = "score"
    /\ scored_pairs' = score_candidates(candidates, RecordsById, min_score)
    /\ cidx' = 1
    /\ uf' = UFNew
    /\ pair_map' = <<>>
    /\ clusters' = <<>>
    /\ cpc' = "loop"
    /\ rpc' = "cluster"
    /\ UNCHANGED <<sources_in, min_score, candidates, resolved, rruns, prior_clusters,
                   prior_entities, entry_point, entity_output, mvars, pvars>>

\* compute_canonical_record for every cluster that cluster returned, then
\* the caller's loop over the records that are in no cluster.
CanonicalStep ==
    /\ rpc = "cluster"
    /\ cpc = "done"
    /\ resolved' = [i \in 1..Len(clusters) |-> compute_canonical_record(clusters[i], RecordsById)]
    /\ entity_output' = resolved' \o PassThroughEntities(entry_point, InputKeys, MatchedKeys(clusters),
                                                        RecordsById)
    /\ rpc' = "done"
    /\ UNCHANGED <<sources_in, min_score, candidates, rruns, prior_clusters, prior_entities,
                   entry_point, cvars, mvars, pvars>>

\* cluster and compute_canonical_record are run again, in another process,
\* on the same scored pairs and the same record lookup.
ResolveAgain ==
    /\ rpc = "done"
    /\ rruns < MaxRuns
    /\ prior_clusters' = clusters
    /\ prior_entities' = resolved
    /\ resolved' = <<>>
    /\ entity_output' = <<>>
    /\ cidx' = 1
    /\ uf' = UFNew
    /\ pair_map' = <<>>
    /\ clusters' = <<>>
    /\ cpc' = "loop"
    /\ rpc' = "cluster"
    /\ rruns' = rruns + 1
    /\ UNCHANGED <<sources_in, min_score, candidates, scored_pairs, entry_point, mvars, pvars>>

NextResolve ==
    BlockStep \/ ScoreStep \/ UnionStep \/ ComponentsStep \/ CanonicalStep \/ ResolveAgain

SpecResolve == InitResolve /\ [][NextResolve]_vars

\* ------------------------------------------------------------------ resolution claims

\* The two single-record sources of the example: a@acme.com and b@acme.com.
IsEmailExample ==
    /\ Len(sources_in.a.records) = 1
    /\ Len(sources_in.b.records) = 1
    /\ sources_in.a.records[1].data = ("email" :> Email("a", "acme.com"))
    /\ sources_in.b.records[1].data = ("email" :> Email("b", "acme.com"))
    /\ min_score = 3000

\* C3: for the sources {email: a@acme.com} and {email: b@acme.com}, blocking
\* yields a candidate, scoring at threshold 0.3 keeps a scored pair,
\* clustering forms exactly one cluster of 2 members and the canonical
\* record reports _source_count == 2.
C3_EmailExampleResolves ==
    (IsEmailExample /\ rpc = "done") =>
        /\ Len(candidates) >= 1
        /\ Len(scored_pairs) >= 1
        /\ Len(clusters) = 1
        /\ Len(clusters[1].members) = 2
        /\ Len(resolved) = 1
        /\ resolved[1]._source_count = 2

\* C9: a second run of cluster and compute_canonical_record on the same
\* scored pairs and records yields the same clusters, members in the same
\* order, and the same canonical records.
C9_ResolutionDeterministic ==
    (rpc = "done" /\ rruns >= 2) =>
        /\ clusters = prior_clusters
        /\ resolved = prior_entities

\* The keys of the input that are in no cluster.
UnmatchedKeys == Range(InputKeys) \ MatchedKeys(clusters)

MaxMembers == 2

\* The source types of the members; "other" is not in SOURCE_PRIORITY.
MemberSources == {<<"stripe">>, <<"postgres">>, <<"hubspot">>, <<"csv">>, <<"other">>}

\* A value that tells which source it came from.
ValueOf(field_name, source) == <<field_name, "of", source[1]>>

\* What a member's record may hold: email has a preferred-source list, name
\* has none, "_sources" starts with "_"; a value may be None.
MemberData(source) ==
    { <<>>,
      "email" :> Some(ValueOf("email", source)),
      "name" :> Some(ValueOf("name", source)),
      ("email" :> Some(ValueOf("email", source))) @@ ("name" :> Some(ValueOf("name", source))),
      ("email" :> None) @@ ("name" :> Some(ValueOf("name", source))),
      ("email" :> Some(ValueOf("email", source))) @@ ("_sources" :> Some(ValueOf("_sources", source))) }

\* Member lists without repetition, one record id per source.
MemberLists ==
    {ms \in UNION {[1..n -> MemberSources] : n \in 1..MaxMembers} :
        \A i, j \in 1..Len(ms) : i # j => ms[i] # ms[j]}

RecordId == <<"r1">>

InitCanonical ==
    /\ \E ms \in MemberLists :
       \E present \in SUBSET Range(ms) :
       \E datas \in [present -> UNION {MemberData(src) : src \in MemberSources}] :
          /\ \A src \in present : datas[src] \in MemberData(src)
          /\ call_args =
               [cluster |-> [members |-> [i \in 1..Len(ms) |-> <<ms[i], RecordId>>],
                             avg_confidence |-> RInt(6000)],
                records_by_key |->
                    [k \in {FormatKey(src, RecordId) : src \in present} |->
                        LET src == CHOOSE x \in present : FormatKey(x, RecordId) = k
                        IN  [record_id |-> RecordId, source_type |-> src, data |-> datas[src]]]]
    /\ call_result = <<>>
    /\ call_pc = "called"
    /\ ClusterIdle
    /\ MetricsIdle
    /\ ResolveIdle

CanonicalCall ==
    /\ call_pc = "called"
    /\ call_result' = compute_canonical_record(call_args.cluster, call_args.records_by_key)
    /\ call_pc' = "returned"
    /\ UNCHANGED <<call_args, cvars, mvars, rvars>>

NextCanonical == CanonicalCall

SpecCanonical == InitCanonical /\ [][NextCanonical]_vars

\* ------------------------------------------------------------------ canonical claims

\* The positions in cluster.members whose record holds a non-null value for the field.
Contributors(field_name) ==
    {i \in 1..Len(call_args.cluster.members) :
        LET key == FormatKey(call_args.cluster.members[i][1], call_args.cluster.members[i][2])
        IN  /\ key \in DOMAIN call_args.records_by_key
            /\ field_name \in DOMAIN call_args.records_by_key[key].data
            /\ call_args.records_by_key[key].data[field_name] # None}

SourceAt(i) == call_args.cluster.members[i][1]

ValueAt(i, field_name) ==
    call_args.records_by_key[FormatKey(SourceAt(i), call_args.cluster.members[i][2])]
        .data[field_name].v

StartsWithUnderscore(field_name) == field_name = "_sources"

InputFields ==
    UNION {DOMAIN call_args.records_by_key[k].data : k \in DOMAIN call_args.records_by_key}

\* The listed sources of the field that contributed, by their position in the list.
ListedContributing(field_name) ==
    IF field_name \in DOMAIN FIELD_SOURCE_PRIORITY
    THEN {n \in 1..Len(FIELD_SOURCE_PRIORITY[field_name]) :
             \E i \in Contributors(field_name) :
                SourceAt(i) = FIELD_SOURCE_PRIORITY[field_name][n]}
    ELSE {}

Least(S) == CHOOSE x \in S : \A y \in S : x <= y

\* The member the claim says the value comes from.
ChosenMember(field_name) ==
    IF ListedContributing(field_name) # {}
    THEN LET src == FIELD_SOURCE_PRIORITY[field_name][Least(ListedContributing(field_name))]
         IN  Least({i \in Contributors(field_name) : SourceAt(i) = src})
    ELSE Least({i \in Contributors(field_name) :
                   \A j \in Contributors(field_name) :
                      PriorityOf(SourceAt(j)) <= PriorityOf(SourceAt(i))})

NameUniverse ==
    { None, Some(<<>>), Some(<<"Acme">>), Some(<<"ACME">>), Some(<<"acne">>),
      Some(<<"acme", " ", "inc">>), Some(<<"acme", " ", "inc.">>),
      Some(<<"acme", " ", "corporation">>), Some(<<"acme", " ", "corp">>),
      Some(<<"acme", " ", "corporation", " ", "ltd">>),
      Some(<<"acme", " ", "corporation", " ", "ltd.">>),
      Some(<<"acme", " ", "international", " ", "group">>),
      Some(<<"acme", " ", "international", " ", "groups">>),
      Some(<<"bolt">>) }

\* The timestamps handed to score_temporal: None, "", dates up to 4 days and
\* 152 days apart, half a day apart, with a time zone, and not a date.
TimestampUniverse ==
    { None, Some(<<>>), Some(<<"not a date">>) } \cup {Some(t) : t \in DOMAIN Timestamps}

\* The records handed to score_pair.
ScoredEmails == { None, Email("a", "acme.com"), Email("b", "acme.com"), Email("a", "other.com") }
ScoredNames == { None, Some(<<"acme", " ", "inc">>), Some(<<"acme", " ", "inc.">>), Some(<<"bolt">>) }
ScoredTimes == { None, Some(<<"2024-01-15">>), Some(<<"2024-01-16">>) }
ScoredAmounts == { None, Some(<<"100">>), Some(<<"105">>), Some(<<"abc">>) }

ScoredRecords ==
    { [data |-> ("email" :> e) @@ ("name" :> n) @@ ("created_at" :> t) @@ ("mrr" :> m)] :
        e \in ScoredEmails, n \in ScoredNames, t \in ScoredTimes, m \in ScoredAmounts }

TheCandidate ==
    [record_a_id |-> <<"a1">>, record_a_source |-> <<"stripe">>,
     record_b_id |-> <<"b1">>, record_b_source |-> <<"postgres">>,
     blocking_strategy |-> "email_domain"]

InitScoring ==
    /\ \/ \E ra, rb \in ScoredRecords :
             call_args = [fn |-> "score_pair", record_a |-> ra, record_b |-> rb]
       \/ \E na, nb \in NameUniverse :
             call_args = [fn |-> "score_company_name", name_a |-> na, name_b |-> nb]
       \/ \E ta, tb \in TimestampUniverse :
             call_args = [fn |-> "score_temporal", ts_a |-> ta, ts_b |-> tb]
    /\ call_result = <<>>
    /\ call_pc = "called"
    /\ ClusterIdle
    /\ MetricsIdle
    /\ ResolveIdle

ScorePairCall ==
    /\ call_pc = "called"
    /\ call_args.fn = "score_pair"
    /\ call_result' = score_pair(call_args.record_a, call_args.record_b, TheCandidate)
    /\ call_pc' = "returned"
    /\ UNCHANGED <<call_args, cvars, mvars, rvars>>

CompanyNameCall ==
    /\ call_pc = "called"
    /\ call_args.fn = "score_company_name"
    /\ call_result' = score_company_name(call_args.name_a, call_args.name_b)
    /\ call_pc' = "returned"
    /\ UNCHANGED <<call_args, cvars, mvars, rvars>>

TemporalCall ==
    /\ call_pc = "called"
    /\ call_args.fn = "score_temporal"
    /\ call_result' = score_temporal(call_args.ts_a, call_args.ts_b)
    /\ call_pc' = "returned"
    /\ UNCHANGED <<call_args, cvars, mvars, rvars>>

NextScoring == ScorePairCall \/ CompanyNameCall \/ TemporalCall

SpecScoring == InitScoring /\ [][NextScoring]_vars

\* ------------------------------------------------------------------ scoring claims

ReturnedFrom(fn) == call_pc = "returned" /\ "fn" \in DOMAIN call_args /\ call_args.fn = fn

\* The sum the claim speaks of, in 1/100000000: weight x dimension score over
\* the weight table, a dimension without a score counting 0.
RECURSIVE SumOverWeights(_, _)
SumOverWeights(table, scores) ==
    IF table = <<>> THEN 0
    ELSE Head(table).weight * (IF Head(table).dim \in DOMAIN scores
                               THEN scores[Head(table).dim] ELSE 0)
         + SumOverWeights(Tail(table), scores)

RECURSIVE WeightTotal(_)
WeightTotal(table) == IF table = <<>> THEN 0 ELSE Head(table).weight + WeightTotal(Tail(table))

\* C13 as stated: total_score equals the weighted sum of the dimension
\* scores, the weights sum to 1.0 within 0.01 and the total is in [0, 1].
C13_TotalIsWeightedSum ==
    ReturnedFrom("score_pair") =>
        /\ call_result.total_score * 10000
              = SumOverWeights(DIMENSION_WEIGHTS, call_result.dimension_scores)
        /\ WeightTotal(DIMENSION_WEIGHTS) \in 99..101
        /\ call_result.total_score \in 0..10000

\* C13 as amended: total_score is the weighted sum of the dimension scores
\* rounded to 4 decimals (at most 0.00005 from it), the weights sum to 1.0
\* within 0.01 and the total is in [0, 1].
C13_TotalIsRoundedWeightedSum ==
    ReturnedFrom("score_pair") =>
        /\ Abs(call_result.total_score * 10000
               - SumOverWeights(DIMENSION_WEIGHTS, call_result.dimension_scores)) <= 5000
        /\ WeightTotal(DIMENSION_WEIGHTS) \in 99..101
        /\ call_result.total_score \in 0..10000

\* Names one character apart: the sum 0.23529... is reported as 0.2353.
C13_Witness ==
    /\ ReturnedFrom("score_pair")
    /\ call_result.dimension_scores.company_name = 941176
    /\ call_result.dimension_scores.email = 0
    /\ call_result.dimension_scores.temporal = 0
    /\ call_result.dimension_scores.amount = 0
    /\ call_result.total_score = 2353

NamePresent(name) == name # None /\ name.v # <<>>

\* The fuzzy similarity of the two names of the call, in 1/1000000.
NameSimilarity == WRatio(Lower(call_args.name_a.v), Lower(call_args.name_b.v))

\* An exact match of the normalized names.
NamesMatchExactly ==
    normalize_company_name(call_args.name_a) = normalize_company_name(call_args.name_b)

\* C14 as stated: 1.0 only for an exact (normalized) match, the similarity s
\* itself when s >= 0.80 and the names are not an exact match, 0.0 when
\* s < 0.80, and 0.0 when a name is missing or empty.
C14_NameScore ==
    ReturnedFrom("score_company_name") =>
        IF ~NamePresent(call_args.name_a) \/ ~NamePresent(call_args.name_b)
        THEN call_result.score = 0
        ELSE /\ call_result.score = 1000000 => NamesMatchExactly
             /\ (NameSimilarity >= 800000 /\ ~NamesMatchExactly)
                   => call_result.score = NameSimilarity
             /\ NameSimilarity < 800000 => call_result.score = 0

\* C14 as amended: with s the similarity of the lower-cased names, the score
\* is 1.0 when s >= 0.95 (an exact match or not), s itself when
\* 0.80 <= s < 0.95, 0.0 when s < 0.80, and 0.0 when a name is missing or empty.
C14_NameScoreNearExact ==
    ReturnedFrom("score_company_name") =>
        IF ~NamePresent(call_args.name_a) \/ ~NamePresent(call_args.name_b)
        THEN call_result.score = 0
        ELSE /\ NameSimilarity >= 950000 => call_result.score = 1000000
             /\ (NameSimilarity >= 800000 /\ NameSimilarity < 950000)
                   => call_result.score = NameSimilarity
             /\ NameSimilarity < 800000 => call_result.score = 0

\* "acme international group" and "acme international groups": the
\* similarity is 0.9796, the names differ however normalized, the score is 1.0.
C14_Witness ==
    /\ ReturnedFrom("score_company_name")
    /\ NamePresent(call_args.name_a)
    /\ NamePresent(call_args.name_b)
    /\ ~NamesMatchExactly
    /\ NameSimilarity = 979592
    /\ call_result.score = 1000000

TimestampUsable(ts) == ts # None /\ ts.v \in DOMAIN Timestamps

TimestampsComparable ==
    /\ TimestampUsable(call_args.ts_a)
    /\ TimestampUsable(call_args.ts_b)
    /\ (call_args.ts_a.v \in AwareTimestamps) = (call_args.ts_b.v \in AwareTimestamps)

HalfDaysBetween == Timestamps[call_args.ts_a.v] - Timestamps[call_args.ts_b.v]

\* The whole days between the two timestamps.
DaysApart == Abs(HalfDaysBetween) \div 2

\* abs((ts_a - ts_b).days): the difference rounded down to whole days, then
\* its absolute value, so that half a day earlier counts as one day.
FlooredDays ==
    IF HalfDaysBetween >= 0 THEN HalfDaysBetween \div 2 ELSE (1 - HalfDaysBetween) \div 2

\* C15 as stated: 1.0 at 0 days apart, linear in the day difference down to
\* 0 at the tolerance boundary, 0.0 beyond it, and 0.0 when a timestamp is
\* missing or cannot be parsed.
C15_TemporalDecayToZero ==
    ReturnedFrom("score_temporal") =>
        IF ~TimestampsComparable THEN call_result.score = 0
        ELSE IF DaysApart <= ToleranceDays
             THEN call_result.score * ToleranceDays = 1000000 * (ToleranceDays - DaysApart)
             ELSE call_result.score = 0

\* C15 as amended: with d = abs((ts_a - ts_b).days) the score is
\* 1 - d / (T + 1) for d <= T, so 1.0 at d = 0 and 1 / (T + 1) at the
\* boundary d = T, 0.0 for d > T, and 0.0 when a timestamp is missing, cannot
\* be parsed, or only one of the two carries a time zone.
C15_TemporalDecay ==
    ReturnedFrom("score_temporal") =>
        IF ~TimestampsComparable THEN call_result.score = 0
        ELSE IF FlooredDays <= ToleranceDays
             THEN call_result.score * (ToleranceDays + 1)
                     = 1000000 * (ToleranceDays + 1 - FlooredDays)
             ELSE call_result.score = 0

\* At the boundary, 3 days apart, the score is 0.25.
C15_Witness ==
    /\ ReturnedFrom("score_temporal")
    /\ TimestampsComparable
    /\ DaysApart = ToleranceDays
    /\ call_result.score = 250000

\* ------------------------------------------------------------------ numbers of the detectors

\* A float of the detectors is an exact rational, or, where a standard
\* deviation divides, a signed root [sign, sq]: the number sign * sqrt(sq),
\* sq a rational; a rational q is the root of its square.
Sign(n) == IF n > 0 THEN 1 ELSE IF n < 0 THEN -1 ELSE 0

RootOfRat(q) == [sign |-> Sign(q.num), sq |-> RMul(q, q)]

\* abs(x)
RootAbs(x) == [sign |-> Abs(x.sign), sq |-> x.sq]

\* x / k for a positive rational k
RootOver(x, k) == [sign |-> x.sign, sq |-> RDiv(x.sq, RMul(k, k))]

\* x * k for a positive rational k
RootTimes(x, k) == [sign |-> x.sign, sq |-> RMul(x.sq, RMul(k, k))]

RLess(a, b) == ~RLeq(b, a)

RAbs(q) == [num |-> Abs(q.num), den |-> q.den]

\* x < y for roots
RootLess(x, y) ==
    IF x.sign # y.sign THEN x.sign < y.sign
    ELSE IF x.sign = 1 THEN RLess(x.sq, y.sq)
    ELSE IF x.sign = -1 THEN RLess(y.sq, x.sq)
    ELSE FALSE

RootOne == RootOfRat(RInt(1))

\* No cap at 1.0.
Uncapped(x) == x

\* min(1.0, x): x when x < 1.0, else 1.0
Min1(x) == IF RootLess(x, RootOne) THEN x ELSE RootOne

LCM(a, b) == (a * b) \div GCD(a, b)

\* The least common denominator of a list of rationals.
RECURSIVE CommonDen(_)
CommonDen(qs) == IF qs = <<>> THEN 1 ELSE LCM(Head(qs).den, CommonDen(Tail(qs)))

\* The numerator of q over the denominator d.
NumOver(q, d) == q.num * (d \div q.den)

Numerators(qs, d) == [i \in 1..Len(qs) |-> NumOver(qs[i], d)]

Squares(ns) == [i \in 1..Len(ns) |-> ns[i] * ns[i]]

\* np.mean of a non-empty list
np_mean(qs) == Rat(SumSeq(Numerators(qs, CommonDen(qs))), Len(qs) * CommonDen(qs))

\* n^2 d^2 times the variance np.std is the root of: n * sum(x^2) - sum(x)^2
\* over the numerators.
ScaledVariance(qs, d) ==
    Len(qs) * SumSeq(Squares(Numerators(qs, d))) - SumSeq(Numerators(qs, d)) * SumSeq(Numerators(qs, d))

\* np.std(xs) == 0
StdIsZero(qs) == ScaledVariance(qs, CommonDen(qs)) = 0

\* np.std of a list
np_std(qs) ==
    [sign |-> Sign(ScaledVariance(qs, CommonDen(qs))),
     sq |-> Rat(ScaledVariance(qs, CommonDen(qs)),
                Len(qs) * Len(qs) * CommonDen(qs) * CommonDen(qs))]

\* (x - np.mean(xs)) / np.std(xs), np.std(xs) # 0
Standardized(x, qs) ==
    LET d == CommonDen(<<x>> \o qs)
        top == Len(qs) * NumOver(x, d) - SumSeq(Numerators(qs, d))
    IN  [sign |-> Sign(top), sq |-> Rat(top * top, ScaledVariance(qs, d))]

\* The whole sequence instead of its tail.
WholeList(xs, n) == xs

\* sequence[-n:]
LastN(xs, n) == IF Len(xs) <= n THEN xs ELSE SubSeq(xs, Len(xs) - n + 1, Len(xs))

\* ------------------------------------------------------------------ detection/statistical.py

\* StatisticalDetector.__init__ defaults
BaselineWindow == 30
ZThreshold == Rat(5, 2)

\* detect_rate_of_change's default threshold_multiplier
ThresholdMultiplier == RInt(2)

\* A list of numbers as floats.
Floats(xs) == [i \in 1..Len(xs) |-> RInt(xs[i])]

\* min(1.0, abs(x) / scale)
Severity(x, scale) == Min1(RootOver(RootAbs(x), scale))

\* A threshold test on z itself instead of abs(z).
ExceedsSigned(x, limit) == ~RootLess(x, RootOfRat(limit))

\* abs(x) >= limit
Exceeds(x, limit) == ~RootLess(RootAbs(x), RootOfRat(limit))

detect_zscore(metric_id, current_value, current_date, historical_values) ==
    IF Len(historical_values) < 7 THEN None
    ELSE LET baseline == LastN(Floats(historical_values), BaselineWindow)
             mean == np_mean(baseline)
         IN  IF StdIsZero(baseline) THEN None
             ELSE LET z_score == Standardized(RInt(current_value), baseline)
                  IN  IF Exceeds(z_score, ZThreshold)
                      THEN Some([metric_id |-> metric_id, period_date |-> current_date,
                                 detection_method |-> "z_score",
                                 severity |-> Severity(z_score, RInt(5)),
                                 deviation |-> z_score,
                                 baseline_value |-> mean,
                                 actual_value |-> RInt(current_value),
                                 context |-> [z_score |-> z_score, mean |-> mean,
                                              std |-> np_std(baseline),
                                              baseline_window |-> Len(baseline),
                                              direction |-> IF z_score.sign > 0
                                                            THEN "above" ELSE "below"]])
                      ELSE None

\* The first test of detect_rate_of_change: previous_value == 0.
ChangeUndefined(current_value, previous_value) == previous_value = 0

\* (current_value - previous_value) / abs(previous_value)
RelativeChange(current_value, previous_value) ==
    Rat(current_value - previous_value, Abs(previous_value))

\* A fixed limit of 0.5 instead of 0.15.
SimpleLimitHalf == Rat(1, 2)

\* The fixed limit used with fewer than 7 historical changes.
SimpleLimit == Rat(15, 100)

detect_rate_of_change(metric_id, current_value, previous_value, current_date, historical_changes, threshold_multiplier) ==
    IF ChangeUndefined(current_value, previous_value) THEN None
    ELSE LET current_change == RelativeChange(current_value, previous_value)
         IN  IF Len(historical_changes) < 7
             THEN IF RLess(SimpleLimit, RAbs(current_change))
                  THEN Some([metric_id |-> metric_id, period_date |-> current_date,
                             detection_method |-> "rate_of_change",
                             severity |-> Severity(RootOfRat(current_change), Rat(1, 2)),
                             deviation |-> RootOfRat(current_change),
                             baseline_value |-> RInt(previous_value),
                             actual_value |-> RInt(current_value),
                             context |-> [change_rate |-> current_change,
                                          method |-> "simple_threshold"]])
                  ELSE None
             ELSE IF StdIsZero(historical_changes) THEN None
             ELSE LET z_change == Standardized(current_change, historical_changes)
                  IN  IF Exceeds(z_change, threshold_multiplier)
                      THEN Some([metric_id |-> metric_id, period_date |-> current_date,
                                 detection_method |-> "rate_of_change",
                                 severity |-> Severity(z_change, RInt(4)),
                                 deviation |-> z_change,
                                 baseline_value |-> RInt(previous_value),
                                 actual_value |-> RInt(current_value),
                                 context |-> [change_rate |-> current_change,
                                              z_change |-> z_change,
                                              mean_change |-> np_mean(historical_changes),
                                              std_change |-> np_std(historical_changes)]])
                      ELSE None

\* The loop of lines 98-101: the relative change of every step whose
\* earlier value is not 0.
RECURSIVE ChangesOf(_)
ChangesOf(historical_values) ==
    IF Len(historical_values) < 2 THEN <<>>
    ELSE LET n == Len(historical_values)
             earlier == historical_values[n - 1]
         IN  ChangesOf(SubSeq(historical_values, 1, n - 1))
             \o (IF earlier # 0
                 THEN <<RelativeChange(historical_values[n], earlier)>> ELSE <<>>)

\* anomalies.append(a) if a is not None
AppendIf(anomalies, found) == IF found.some THEN Append(anomalies, found.v) ELSE anomalies

\* A pipeline that runs the rate-of-change detector on any history.
RunsRateOfChangeAlways(historical_values) == Len(historical_values) >= 1

\* len(historical_values) >= 2
RunsRateOfChange(historical_values) == Len(historical_values) >= 2

\* AnomalyDetectionPipeline.detect
detect(metric_id, current_value, current_date, historical_values) ==
    LET z_anomaly == detect_zscore(metric_id, current_value, current_date, historical_values)
        first == AppendIf(<<>>, z_anomaly)
    IN  IF RunsRateOfChange(historical_values)
        THEN AppendIf(first,
                      detect_rate_of_change(metric_id, current_value,
                                            historical_values[Len(historical_values)],
                                            current_date, ChangesOf(historical_values),
                                            ThresholdMultiplier))
        ELSE first

\* ------------------------------------------------------------------ detection/isolation_forest.py

\* IsolationForestDetector.detect.  The fitted forest is scikit-learn's: what
\* fit_predict and score_samples say of the current value, prediction (1 an
\* inlier, -1 an outlier) and score (in [-1, 0)), are inputs here.
forest_detect(metric_id, current_value, current_date, historical_values, prediction, score) ==
    IF Len(historical_values) < 7 THEN None
    ELSE IF prediction # -1 THEN None
    ELSE LET hist == Floats(historical_values)
             mean_baseline == np_mean(hist)
             off == RootAbs(RootOfRat(RSub(RInt(current_value), mean_baseline)))
         IN  IF /\ RootLess(off, RootOne)
                /\ ~StdIsZero(hist)
                /\ RootLess(off, RootTimes(np_std(hist), RInt(2)))
             THEN None
             ELSE Some([metric_id |-> metric_id, period_date |-> current_date,
                        detection_method |-> "isolation_forest",
                        severity |-> Min1(RootTimes(RootAbs(RootOfRat(score)), RInt(2))),
                        deviation |-> RootOfRat(RSub(RInt(current_value), mean_baseline)),
                        baseline_value |-> mean_baseline,
                        actual_value |-> RInt(current_value),
                        context |-> [isolation_forest_score |-> score]])

\* valid_metrics: at least 7 historical values and a value that is not None.
RECURSIVE ValidMetrics(_)
ValidMetrics(metrics) ==
    IF metrics = <<>> THEN <<>>
    ELSE (IF Len(Head(metrics).historical_values) >= 7 /\ Head(metrics).value.some
          THEN <<Head(metrics)>> ELSE <<>>) \o ValidMetrics(Tail(metrics))

\* The keys of groups, in the order they were first inserted.
RECURSIVE GroupLengths(_, _)
GroupLengths(valid, seen) ==
    IF valid = <<>> THEN <<>>
    ELSE LET n == Len(Head(valid).historical_values)
         IN  IF n \in seen THEN GroupLengths(Tail(valid), seen)
             ELSE <<n>> \o GroupLengths(Tail(valid), seen \cup {n})

\* groups[length]
RECURSIVE GroupOf(_, _)
GroupOf(valid, length) ==
    IF valid = <<>> THEN <<>>
    ELSE (IF Len(Head(valid).historical_values) = length THEN <<Head(valid)>> ELSE <<>>)
         \o GroupOf(Tail(valid), length)

\* "multivariate_" + "_".join(metric_ids[:3]) + ("_etc" if len(metric_ids) > 3 else "")
AnomalyId(group) ==
    <<"multivariate">> \o [i \in 1..(IF Len(group) > 3 THEN 3 ELSE Len(group)) |-> group[i].metric_id]
    \o (IF Len(group) > 3 THEN <<"etc">> ELSE <<>>)

\* The loop over groups.items(); forest[length] is what the forest fitted on
\* that group says of the current vector.
RECURSIVE GroupAnomalies(_, _, _, _)
GroupAnomalies(valid, lengths, current_date, forest) ==
    IF lengths = <<>> THEN <<>>
    ELSE LET group == GroupOf(valid, Head(lengths))
             said == forest[Head(lengths)]
         IN  (IF Len(group) >= 2 /\ said.prediction = -1
              THEN <<[metric_id |-> AnomalyId(group), period_date |-> current_date,
                      detection_method |-> "isolation_forest_multivariate",
                      severity |-> Min1(RootTimes(RootAbs(RootOfRat(said.score)), RInt(2))),
                      deviation |-> RootOfRat(RInt(0)),
                      baseline_value |-> RInt(0),
                      actual_value |-> RInt(0),
                      context |-> [isolation_forest_score |-> said.score,
                                   involved_metrics |-> [i \in 1..Len(group) |-> group[i].metric_id]]]>>
              ELSE <<>>)
             \o GroupAnomalies(valid, Tail(lengths), current_date, forest)

detect_multivariate(metrics, current_date, forest) ==
    GroupAnomalies(ValidMetrics(metrics), GroupLengths(ValidMetrics(metrics), {}), current_date,
                   forest)

\* ------------------------------------------------------------------ SpecDetect

\* Bounds of the histories that are enumerated, and of a multivariate call.
MaxHistory == 8
MaxMetrics == 3

\* test_detects_spike: [100.0 + (i % 5) for i in range(30)]
SpecExampleHistory == [i \in 1..30 |-> 100 + ((i - 1) % 5)]

\* 31 points: the oldest one lies outside the baseline window.
ConstantWindowHistory == <<0>> \o [i \in 1..30 |-> 10]
OutlierBeforeWindowHistory == <<1000>> \o SpecExampleHistory

LongHistories == {SpecExampleHistory, ConstantWindowHistory, OutlierBeforeWindowHistory}

\* The histories handed to detect_zscore and the current values.
ZScoreHistories == SeqsUpTo({10, 12}, MaxHistory) \cup LongHistories
ZScoreCurrents == {0, 1, 10, 11, 12, 13, 20, 200}

\* The histories handed to the pipeline and the current values.
\* test_pipeline_returns_list: [100.0] * 30, here in tens.
FlatHistory == [i \in 1..30 |-> 10]
SwingingHistory == [i \in 1..30 |-> 10 + 10 * (i % 2)]
PipelineHistories == SeqsUpTo({0, 10, 12}, MaxHistory) \cup {FlatHistory, SwingingHistory}
PipelineCurrents == {10, 12, 20, 100}

\* The arguments of direct calls of detect_rate_of_change.
ChangeLists ==
    { <<>>,
      [i \in 1..6 |-> Rat(1, 10)],
      [i \in 1..7 |-> Rat(1, 10)],
      [i \in 1..7 |-> Rat(i % 3, 10)],
      [i \in 1..8 |-> Rat((i % 2) - 1, 5)] }
PreviousValues == {0, 10, -10, 100}
ChangeCurrents == {0, 9, 10, 11, 12, 15, 100, 101, 200}

\* What a fitted forest may say of the current value.
ForestSays == [prediction : {1, -1}, score : {Rat(-3, 10), Rat(-1, 2), Rat(-4, 5)}]

ForestHistories == { [i \in 1..6 |-> 10], [i \in 1..7 |-> 10], [i \in 1..7 |-> 10 + (i % 2)],
                     [i \in 1..8 |-> 10 * (i % 3)] }
ForestCurrents == {10, 11, 25, 50}

\* The metrics of a multivariate call.
MetricTemplates ==
    { [metric_id |-> "mrr", value |-> Some(10), historical_values |-> [i \in 1..7 |-> 10]],
      [metric_id |-> "arpu", value |-> Some(12), historical_values |-> [i \in 1..7 |-> 12 + i]],
      [metric_id |-> "nrr", value |-> None, historical_values |-> [i \in 1..7 |-> 1]],
      [metric_id |-> "churn_mrr", value |-> Some(1), historical_values |-> [i \in 1..8 |-> i]],
      [metric_id |-> "new_mrr", value |-> Some(2), historical_values |-> [i \in 1..8 |-> 2]],
      [metric_id |-> "quick_ratio", value |-> Some(3), historical_values |-> [i \in 1..6 |-> 3]] }

TheDate == "2025-01-15"

InitDetect ==
    /\ \/ \E h \in ZScoreHistories, c \in ZScoreCurrents :
             call_args = [fn |-> "detect_zscore", metric_id |-> "mrr", current_value |-> c,
                          current_date |-> TheDate, historical_values |-> h]
       \/ \E c \in ChangeCurrents, pv \in PreviousValues, ch \in ChangeLists :
             call_args = [fn |-> "detect_rate_of_change", metric_id |-> "mrr",
                          current_value |-> c, previous_value |-> pv, current_date |-> TheDate,
                          historical_changes |-> ch]
       \/ \E h \in PipelineHistories, c \in PipelineCurrents :
             call_args = [fn |-> "detect", metric_id |-> "mrr", current_value |-> c,
                          current_date |-> TheDate, historical_values |-> h]
       \/ \E h \in ForestHistories, c \in ForestCurrents, said \in ForestSays :
             call_args = [fn |-> "forest_detect", metric_id |-> "mrr", current_value |-> c,
                          current_date |-> TheDate, historical_values |-> h, forest |-> said]
       \/ \E ms \in UNION {[1..n -> MetricTemplates] : n \in 0..MaxMetrics} :
          \E forest \in [{7, 8} -> ForestSays] :
             call_args = [fn |-> "detect_multivariate", metrics |-> ms,
                          current_date |-> TheDate, forest |-> forest]
    /\ call_result = <<>>
    /\ call_pc = "called"
    /\ ClusterIdle
    /\ MetricsIdle
    /\ ResolveIdle

ZScoreCall ==
    /\ call_pc = "called"
    /\ call_args.fn = "detect_zscore"
    /\ call_result' = detect_zscore(call_args.metric_id, call_args.current_value,
                                    call_args.current_date, call_args.historical_values)
    /\ call_pc' = "returned"
    /\ UNCHANGED <<call_args, cvars, mvars, rvars>>

RateOfChangeCall ==
    /\ call_pc = "called"
    /\ call_args.fn = "detect_rate_of_change"
    /\ call_result' = detect_rate_of_change(call_args.metric_id, call_args.current_value,
                                            call_args.previous_value, call_args.current_date,
                                            call_args.historical_changes, ThresholdMultiplier)
    /\ call_pc' = "returned"
    /\ UNCHANGED <<call_args, cvars, mvars, rvars>>

PipelineCall ==
    /\ call_pc = "called"
    /\ call_args.fn = "detect"
    /\ call_result' = detect(call_args.metric_id, call_args.current_value,
                             call_args.current_date, call_args.historical_values)
    /\ call_pc' = "returned"
    /\ UNCHANGED <<call_args, cvars, mvars, rvars>>

ForestCall ==
    /\ call_pc = "called"
    /\ call_args.fn = "forest_detect"
    /\ call_result' = forest_detect(call_args.metric_id, call_args.current_value,
                                    call_args.current_date, call_args.historical_values,
                                    call_args.forest.prediction, call_args.forest.score)
    /\ call_pc' = "returned"
    /\ UNCHANGED <<call_args, cvars, mvars, rvars>>

MultivariateCall ==
    /\ call_pc = "called"
    /\ call_args.fn = "detect_multivariate"
    /\ call_result' = detect_multivariate(call_args.metrics, call_args.current_date,
                                          call_args.forest)
    /\ call_pc' = "returned"
    /\ UNCHANGED <<call_args, cvars, mvars, rvars>>

NextDetect == ZScoreCall \/ RateOfChangeCall \/ PipelineCall \/ ForestCall \/ MultivariateCall

SpecDetect == InitDetect /\ [][NextDetect]_vars

\* ------------------------------------------------------------------ Claims of the detectors

\* The trailing window the claims speak of: the last 30 points, or all of them.
TrailingWindow(historical_values) ==
    LET n == Len(historical_values)
        k == IF n < 30 THEN n ELSE 30
    IN  [i \in 1..k |-> historical_values[n - k + i]]

\* A standard deviation is exactly 0 when, and only when, all points are equal.
WindowIsConstant(historical_values) ==
    LET w == TrailingWindow(historical_values)
    IN  \A i, j \in 1..Len(w) : w[i] = w[j]

\* C16: detect_zscore returns no anomaly whenever fewer than 7 historical
\* points are supplied, and whenever the standard deviation of the trailing
\* baseline window (the last 30 points) is exactly 0, however far the current
\* value is from the baseline; the call returns in both cases.
C16_ZScoreSkips ==
    ReturnedFrom("detect_zscore") =>
        ( ( \/ Len(call_args.historical_values) < 7
            \/ WindowIsConstant(call_args.historical_values) )
          => call_result = None )

\* A call with 31 points whose last 30 are equal and whose first is not, and a
\* current value that is twenty times the baseline, has returned no anomaly.
C16_Witness ==
    /\ ReturnedFrom("detect_zscore")
    /\ Len(call_args.historical_values) > 30
    /\ WindowIsConstant(call_args.historical_values)
    /\ call_args.historical_values[1] # call_args.historical_values[2]
    /\ call_args.current_value = 200
    /\ call_result = None

\* n times the distance of each window point, and of the current value, from
\* the mean of the window (n the window's length): whole numbers.
WindowSum(historical_values) == SumSeq(TrailingWindow(historical_values))

DistancesFromMean(historical_values) ==
    LET w == TrailingWindow(historical_values)
    IN  [i \in 1..Len(w) |-> Len(w) * w[i] - WindowSum(historical_values)]

CurrentFromMean(current_value, historical_values) ==
    Len(TrailingWindow(historical_values)) * current_value - WindowSum(historical_values)

SumOfSquares(ns) == SumSeq([i \in 1..Len(ns) |-> ns[i] * ns[i]])

\* z squared, for z = (current - mean) / std and std the root of the mean
\* squared distance from the mean: n * (n c - S)^2 / sum of (n w_i - S)^2.
ZSquared(current_value, historical_values) ==
    Rat(Len(TrailingWindow(historical_values))
          * CurrentFromMean(current_value, historical_values)
          * CurrentFromMean(current_value, historical_values),
        SumOfSquares(DistancesFromMean(historical_values)))

\* The square of min(1.0, |z| / k), given z squared.
CappedSquare(zsq, k) ==
    IF RLess(zsq, RInt(k * k)) THEN RDiv(zsq, RInt(k * k)) ELSE RInt(1)

ZScoreApplies ==
    /\ ReturnedFrom("detect_zscore")
    /\ Len(call_args.historical_values) >= 7
    /\ ~WindowIsConstant(call_args.historical_values)

\* C17: with at least 7 historical points and a non-zero baseline standard
\* deviation, detect_zscore returns an anomaly iff |z| >= 2.5, z being
\* (current - mean) / std over the trailing window; the anomaly's severity is
\* min(1.0, |z| / 5.0), its deviation is z, its baseline_value is the mean and
\* its direction is "above" iff current > mean, "below" otherwise.
C17_ZScoreAnomaly ==
    ZScoreApplies =>
        LET h == call_args.historical_values
            c == call_args.current_value
            zsq == ZSquared(c, h)
        IN  /\ call_result.some <=> RLeq(Rat(25, 4), zsq)
            /\ call_result.some =>
                 /\ call_result.v.severity.sign = 1
                 /\ call_result.v.severity.sq = CappedSquare(zsq, 5)
                 /\ call_result.v.deviation.sign = Sign(CurrentFromMean(c, h))
                 /\ call_result.v.deviation.sq = zsq
                 /\ call_result.v.baseline_value = Rat(WindowSum(h), Len(TrailingWindow(h)))
                 /\ call_result.v.context.direction
                      = (IF CurrentFromMean(c, h) > 0 THEN "above" ELSE "below")

\* The example: a 30-point baseline in [100, 104] and a current value of 200
\* fire with direction "above" and the severity capped at 1.
C17_Witness ==
    /\ ZScoreApplies
    /\ call_args.historical_values = [i \in 1..30 |-> 100 + ((i - 1) % 5)]
    /\ call_args.current_value = 200
    /\ call_result.some
    /\ call_result.v.context.direction = "above"
    /\ call_result.v.severity.sq = RInt(1)

\* The sum, the mean and the mean squared distance from the mean of a list of
\* rationals, by their definitions.
RECURSIVE RSum(_)
RSum(qs) == IF qs = <<>> THEN RInt(0) ELSE RAdd(Head(qs), RSum(Tail(qs)))

RMean(qs) == RDiv(RSum(qs), RInt(Len(qs)))

RVariance(qs) ==
    RDiv(RSum([i \in 1..Len(qs) |->
                 RMul(RSub(qs[i], RMean(qs)), RSub(qs[i], RMean(qs)))]),
         RInt(Len(qs)))

\* c = (current - previous) / |previous|, previous # 0
ClaimedChange ==
    RDiv(RInt(call_args.current_value - call_args.previous_value),
         RInt(Abs(call_args.previous_value)))

\* z squared of the change standardized against the historical changes, which
\* exists when their standard deviation is not 0.
ChangeZSquared ==
    LET distance == RSub(ClaimedChange, RMean(call_args.historical_changes))
    IN  RDiv(RMul(distance, distance), RVariance(call_args.historical_changes))

ChangeZExists == RVariance(call_args.historical_changes).num # 0

\* C18: detect_rate_of_change with a previous value of 0 yields no anomaly;
\* otherwise, with relative change c and fewer than 7 historical changes, an
\* anomaly is returned iff |c| > 0.15, with severity min(1.0, |c| / 0.5); with 7
\* or more, an anomaly is returned iff the change standardized against the
\* historical changes has |z| >= 2.0 (there is no such z when the historical
\* changes have no spread), with severity min(1.0, |z| / 4.0).
C18_RateOfChange ==
    ReturnedFrom("detect_rate_of_change") =>
        IF call_args.previous_value = 0 THEN call_result = None
        ELSE IF Len(call_args.historical_changes) < 7
        THEN /\ call_result.some <=> RLess(Rat(15, 100), RAbs(ClaimedChange))
             /\ call_result.some =>
                  /\ call_result.v.severity.sign = 1
                  /\ call_result.v.severity.sq
                       = CappedSquare(RMul(RInt(4), RMul(ClaimedChange, ClaimedChange)), 1)
        ELSE /\ call_result.some <=> (ChangeZExists /\ RLeq(RInt(4), ChangeZSquared))
             /\ call_result.some =>
                  /\ call_result.v.severity.sign = 1
                  /\ call_result.v.severity.sq = CappedSquare(ChangeZSquared, 4)

\* A change of at most 15% against 7 or more historical changes is an anomaly
\* of the standardized rule, though none of the fixed one, with a severity
\* below 1.
C18_Witness ==
    /\ ReturnedFrom("detect_rate_of_change")
    /\ call_args.previous_value # 0
    /\ Len(call_args.historical_changes) >= 7
    /\ ~RLess(Rat(15, 100), RAbs(ClaimedChange))
    /\ call_result.some
    /\ RLess(call_result.v.severity.sq, RInt(1))

\* The anomalies of one detection method in a list, in their order.
OfMethod(anomalies, method) ==
    SelectSeq(anomalies, LAMBDA a : a.detection_method = method)

\* A detector's answer as a list: the anomaly, or nothing.
AsList(found) == IF found.some THEN <<found.v>> ELSE <<>>

LastHistorical == call_args.historical_values[Len(call_args.historical_values)]

\* C19: AnomalyDetectionPipeline.detect always runs the z-score detector, runs
\* the rate-of-change detector, with previous = the last historical value, only
\* when at least 2 historical points exist, and returns the fired anomalies in
\* the order z_score then rate_of_change, at most one per method; an empty
\* history returns the empty list, and a history of any length returns.
C19_PipelineOrder ==
    ReturnedFrom("detect") =>
        LET h == call_args.historical_values
            z == OfMethod(call_result, "z_score")
            r == OfMethod(call_result, "rate_of_change")
        IN  /\ call_result = z \o r
            /\ Len(z) <= 1
            /\ Len(r) <= 1
            /\ z = AsList(detect_zscore(call_args.metric_id, call_args.current_value,
                                        call_args.current_date, h))
            /\ Len(h) < 2 => r = <<>>
            /\ Len(h) >= 2 =>
                 /\ r = AsList(detect_rate_of_change(call_args.metric_id,
                                                     call_args.current_value, LastHistorical,
                                                     call_args.current_date, ChangesOf(h),
                                                     ThresholdMultiplier))
                 /\ r # <<>> => r[1].baseline_value = RInt(LastHistorical)
            /\ h = <<>> => call_result = <<>>

\* Both detectors fired on a history with a zero in it, and the pipeline
\* returned the z-score anomaly first and the rate-of-change anomaly second.
C19_Witness ==
    /\ ReturnedFrom("detect")
    /\ \E i \in 1..Len(call_args.historical_values) : call_args.historical_values[i] = 0
    /\ Len(call_result) = 2
    /\ call_result[1].detection_method = "z_score"
    /\ call_result[2].detection_method = "rate_of_change"

\* The anomalies a returned call produced, whichever detector was called.
ProducedAnomalies ==
    IF call_args.fn \in {"detect", "detect_multivariate"} THEN Range(call_result)
    ELSE IF call_result.some THEN {call_result.v} ELSE {}

DetectorReturned ==
    /\ call_pc = "returned"
    /\ call_args.fn \in {"detect_zscore", "detect_rate_of_change", "detect", "forest_detect",
                         "detect_multivariate"}

\* 0 <= s <= 1 for a signed root s
InUnitInterval(s) == s.sign \in {0, 1} /\ RLeq(s.sq, RInt(1))

\* C20: every DetectedAnomaly produced by any detector (z-score, rate of change
\* in both modes, isolation forest on one and on several metrics) has
\* 0 <= severity <= 1, however extreme the current value.
C20_SeverityBounded ==
    DetectorReturned => \A a \in ProducedAnomalies : InUnitInterval(a.severity)

\* A z-score anomaly more than 5 standard deviations out: |z| / 5 is above 1
\* and the severity is 1.
C20_Witness ==
    /\ ReturnedFrom("detect_zscore")
    /\ call_result.some
    /\ RLess(RInt(25), call_result.v.deviation.sq)
    /\ call_result.v.severity = RootOne

\* n times the distance of the current value from the mean of the whole
\* history, n its length.
HistoryDistance(current_value, historical_values) ==
    Abs(Len(historical_values) * current_value - SumSeq(historical_values))

\* The sum over the history of (n h_i - S)^2: n^3 times the variance.
HistorySpread(historical_values) ==
    SumOfSquares([i \in 1..Len(historical_values) |->
                    Len(historical_values) * historical_values[i] - SumSeq(historical_values)])

\* |current - mean| < 1.0
DeviationIsTiny(current_value, historical_values) ==
    HistoryDistance(current_value, historical_values) < Len(historical_values)

\* |current - mean| < 2 std
WithinTwoStd(current_value, historical_values) ==
    Len(historical_values) * HistoryDistance(current_value, historical_values)
                           * HistoryDistance(current_value, historical_values)
      < 4 * HistorySpread(historical_values)

MarkedOutlier ==
    /\ ReturnedFrom("forest_detect")
    /\ Len(call_args.historical_values) >= 7
    /\ call_args.forest.prediction = -1

\* C21: in IsolationForestDetector.detect with at least 7 historical points,
\* when the forest marks the current point an outlier the flag is suppressed
\* (None is returned) whenever the absolute deviation of the current value
\* from the historical mean is below 1.0, and also whenever that deviation is
\* within 2 historical standard deviations; either condition alone suffices.
C21_DeadZone ==
    MarkedOutlier =>
        ( ( \/ DeviationIsTiny(call_args.current_value, call_args.historical_values)
            \/ WithinTwoStd(call_args.current_value, call_args.historical_values) )
          => call_result = None )

\* ------------------------------------------------------------------ Claims of the ontology

\* The children of a set of metrics along the edges of METRIC_DAG.
EdgeChildren(S) == {METRIC_DAG[i].child : i \in {j \in 1..Len(METRIC_DAG) : METRIC_DAG[j].parent \in S}}

\* What is reached from S in at most k further steps, S included.
RECURSIVE ReachedWithin(_, _)
ReachedWithin(S, k) == IF k = 0 THEN S ELSE ReachedWithin(S \cup EdgeChildren(S), k - 1)

\* What is reached from a metric in one step or more.
Descendants(metric_id) == ReachedWithin(EdgeChildren({metric_id}), Len(METRIC_DAG))

EdgeEnds == {METRIC_DAG[i].parent : i \in 1..Len(METRIC_DAG)}
              \cup {METRIC_DAG[i].child : i \in 1..Len(METRIC_DAG)}

\* C22: METRIC_DAG is acyclic and has no self-loop, and both endpoints of every
\* edge are ids defined in CORE_METRICS; every MetricDef.parent and every id in
\* a MetricDef.decomposition list is defined in CORE_METRICS, and no metric
\* lists itself in its decomposition; so the decomposition map of a computed
\* metric names defined metrics other than the metric itself.
C22_OntologyIntegrity ==
    /\ \A i \in 1..Len(METRIC_DAG) :
          /\ METRIC_DAG[i].parent # METRIC_DAG[i].child
          /\ METRIC_DAG[i].parent \in MetricIds
          /\ METRIC_DAG[i].child \in MetricIds
    /\ \A m \in EdgeEnds \cup MetricIds : m \notin Descendants(m)
    /\ \A i \in 1..Len(CORE_METRICS) :
          /\ MetricParent(CORE_METRICS[i].metric_id).some
                => MetricParent(CORE_METRICS[i].metric_id).v \in MetricIds
          /\ Range(CORE_METRICS[i].decomposition) \subseteq MetricIds
          /\ CORE_METRICS[i].metric_id \notin Range(CORE_METRICS[i].decomposition)
    /\ \A i \in 1..Len(computed) :
          computed[i].decomposition.some =>
              /\ DOMAIN computed[i].decomposition.v \subseteq MetricIds
              /\ computed[i].metric_id \notin DOMAIN computed[i].decomposition.v

\* compute_all has walked the edges: the batch holds mrr with its four
\* components, and nrr, two steps above them, reaches them through mrr too.
C22_Witness ==
    /\ mpc = "done"
    /\ \E i \in 1..Len(computed) :
          /\ computed[i].metric_id = "mrr"
          /\ computed[i].decomposition.some
          /\ DOMAIN computed[i].decomposition.v = EdgeChildren({"mrr"})
    /\ "mrr" \in EdgeChildren({"nrr"})
    /\ Descendants("nrr") = {"mrr", "new_mrr", "expansion_mrr", "contraction_mrr", "churn_mrr"}

\* MetricDef.decomposition of the metric with this id.
DeclaredChildren(metric_id) ==
    LET i == CHOOSE j \in 1..Len(CORE_METRICS) : CORE_METRICS[j].metric_id = metric_id
    IN  Range(CORE_METRICS[i].decomposition)

\* The value the batch holds for a metric, 0.0 if it holds none.
BatchValueOr0(metric_id) ==
    IF \E j \in 1..Len(computed) : computed[j].metric_id = metric_id
    THEN computed[CHOOSE j \in 1..Len(computed) : computed[j].metric_id = metric_id].value
    ELSE RInt(0)

\* C23: for every metric in compute_all's output the key set of the
\* decomposition map equals the metric's declared decomposition children (for
\* mrr: new_mrr, expansion_mrr, contraction_mrr, churn_mrr), each key maps to
\* that child's computed value of the same batch, or 0.0 if the child has none,
\* and a metric with no declared children has no decomposition map (None).
C23_DecompositionMap ==
    mpc = "done" =>
        \A i \in 1..Len(computed) :
            IF DeclaredChildren(computed[i].metric_id) = {}
            THEN computed[i].decomposition = None
            ELSE /\ computed[i].decomposition.some
                 /\ DOMAIN computed[i].decomposition.v = DeclaredChildren(computed[i].metric_id)
                 /\ \A c \in DeclaredChildren(computed[i].metric_id) :
                        computed[i].decomposition.v[c] = BatchValueOr0(c)

\* A batch whose mrr carries its four components, new_mrr and churn_mrr not
\* zero, and whose nrr, a metric with edges but no declared children, has no map.
C23_Witness ==
    /\ mpc = "done"
    /\ \E i, k \in 1..Len(computed) :
          /\ computed[i].metric_id = "mrr"
          /\ computed[i].decomposition.some
          /\ DOMAIN computed[i].decomposition.v
               = {"new_mrr", "expansion_mrr", "contraction_mrr", "churn_mrr"}
          /\ computed[i].decomposition.v["churn_mrr"].num # 0
          /\ computed[i].decomposition.v["expansion_mrr"].num # 0
          /\ computed[k].metric_id = "nrr"
          /\ computed[k].decomposition = None

\* ------------------------------------------------------------------ metrics/validation.py

\* {m.metric_id: m.value for m in metrics}: a later metric replaces an earlier
\* one of the same id.
RECURSIVE ValuesById(_)
ValuesById(metrics) ==
    IF metrics = <<>> THEN <<>>
    ELSE LET last == metrics[Len(metrics)]
         IN  (last.metric_id :> last.value) @@ ValuesById(SubSeq(metrics, 1, Len(metrics) - 1))

\* values.get(metric_id, 0)
ValueOr0(values, metric_id) == IF metric_id \in DOMAIN values THEN values[metric_id] ELSE RInt(0)

\* MetricValidator._check_mrr_decomposition
_check_mrr_decomposition(values) ==
    LET new == ValueOr0(values, "new_mrr")
        expansion == ValueOr0(values, "expansion_mrr")
        contraction == ValueOr0(values, "contraction_mrr")
        churn == ValueOr0(values, "churn_mrr")
        net_change == RSub(RSub(RAdd(new, expansion), contraction), churn)
    IN  [invariant_name |-> "mrr_decomposition_sum", passed |-> TRUE, severity |-> "error",
         message |-> <<"MRR components: new=", new, "exp=", expansion, "contr=", contraction,
                       "churn=", churn, "net=", net_change>>,
         details |-> [new |-> new, expansion |-> expansion, contraction |-> contraction,
                      churn |-> churn]]

\* A range without its upper end.
NrrInRangeBelow300(nrr) == RLeq(RInt(0), nrr) /\ RLess(nrr, RInt(300))

\* 0 <= nrr <= 300
NrrInRange(nrr) == RLeq(RInt(0), nrr) /\ RLeq(nrr, RInt(300))

\* MetricValidator._check_nrr_range
_check_nrr_range(values) ==
    LET nrr == ValueOr0(values, "nrr")
        is_valid == NrrInRange(nrr)
    IN  [invariant_name |-> "nrr_range", passed |-> is_valid, severity |-> "warning",
         message |-> <<"NRR is", nrr, IF is_valid THEN "within" ELSE "outside">>]

\* MetricValidator._check_quick_ratio
_check_quick_ratio(values) ==
    LET denominator == RAdd(ValueOr0(values, "contraction_mrr"), ValueOr0(values, "churn_mrr"))
        is_valid == RLess(RInt(0), denominator)
    IN  [invariant_name |-> "quick_ratio_positive_denominator", passed |-> is_valid,
         severity |-> "info",
         message |-> <<"Quick ratio denominator:", denominator>>
                       \o (IF is_valid THEN <<>> ELSE <<" (zero)">>)]

\* MetricValidator.validate_all
validate_all(metrics) ==
    LET values == ValuesById(metrics)
    IN  <<_check_mrr_decomposition(values), _check_nrr_range(values), _check_quick_ratio(values)>>

\* ------------------------------------------------------------------ SpecValidate

\* Bound of the list handed to validate_all.
MaxComputed == 3

\* A ComputedMetric, as far as the validator and the claims read it.
Computed(metric_id, value, change_absolute) ==
    [metric_id |-> metric_id, value |-> value, change_absolute |-> change_absolute]

ComputedUniverse ==
    { Computed("mrr", RInt(1000), Some(RInt(200))),
      Computed("mrr", RInt(1000), None),
      Computed("new_mrr", RInt(50), None),
      Computed("expansion_mrr", RInt(0), None),
      Computed("contraction_mrr", RInt(100), None),
      Computed("contraction_mrr", RInt(0), None),
      Computed("churn_mrr", RInt(100), None),
      Computed("churn_mrr", RInt(-100), None),
      Computed("nrr", RInt(0), None),
      Computed("nrr", RInt(-1), None),
      Computed("nrr", RInt(300), None),
      Computed("nrr", Rat(3001, 10), None),
      Computed("arpu", RInt(7), None) }

InitValidate ==
    /\ \E ms \in SeqsUpTo(ComputedUniverse, MaxComputed) :
          call_args = [fn |-> "validate_all", metrics |-> ms]
    /\ call_result = <<>>
    /\ call_pc = "called"
    /\ ClusterIdle
    /\ MetricsIdle
    /\ ResolveIdle

ValidateCall ==
    /\ call_pc = "called"
    /\ call_args.fn = "validate_all"
    /\ call_result' = validate_all(call_args.metrics)
    /\ call_pc' = "returned"
    /\ UNCHANGED <<call_args, cvars, mvars, rvars>>

NextValidate == ValidateCall

SpecValidate == InitValidate /\ [][NextValidate]_vars

\* The value validate_all reads for an id: that of the last metric of the
\* list with this id, 0 without one.
LastValueOr0(metrics, metric_id) ==
    IF \E i \in 1..Len(metrics) : metrics[i].metric_id = metric_id
    THEN LET k == CHOOSE i \in 1..Len(metrics) :
                     /\ metrics[i].metric_id = metric_id
                     /\ \A j \in (i + 1)..Len(metrics) : metrics[j].metric_id # metric_id
         IN  metrics[k].value
    ELSE RInt(0)

\* C24: validate_all returns exactly one ValidationResult per invariant check,
\* always in the order mrr_decomposition_sum, nrr_range,
\* quick_ratio_positive_denominator, for every list of computed metrics, the
\* empty list and lists missing the checked ids included; the call returns,
\* and a failing check only sets passed to false: nrr_range passes iff
\* 0 <= nrr <= 300, quick_ratio_positive_denominator passes iff
\* contraction_mrr + churn_mrr > 0.
C24_ValidateAll ==
    ReturnedFrom("validate_all") =>
        LET ms == call_args.metrics
            nrr == LastValueOr0(ms, "nrr")
            denominator == RAdd(LastValueOr0(ms, "contraction_mrr"), LastValueOr0(ms, "churn_mrr"))
        IN  /\ Len(call_result) = 3
            /\ call_result[1].invariant_name = "mrr_decomposition_sum"
            /\ call_result[2].invariant_name = "nrr_range"
            /\ call_result[3].invariant_name = "quick_ratio_positive_denominator"
            /\ \A i \in 1..3 : call_result[i].passed \in BOOLEAN
            /\ call_result[2].passed <=> (nrr.num >= 0 /\ nrr.num <= 300 * nrr.den)
            /\ call_result[3].passed <=> (denominator.num > 0)

\* A list without contraction_mrr and churn_mrr and with an nrr of exactly
\* 300: three results, the range check passed, the denominator check failed.
C24_Witness ==
    /\ ReturnedFrom("validate_all")
    /\ \A i \in 1..Len(call_args.metrics) :
          call_args.metrics[i].metric_id \notin {"contraction_mrr", "churn_mrr"}
    /\ LastValueOr0(call_args.metrics, "nrr") = RInt(300)
    /\ Len(call_result) = 3
    /\ call_result[2].passed
    /\ ~call_result[3].passed

\* new_mrr + expansion_mrr - contraction_mrr - churn_mrr of the list
ComponentsNet(metrics) ==
    RSub(RSub(RAdd(LastValueOr0(metrics, "new_mrr"), LastValueOr0(metrics, "expansion_mrr")),
              LastValueOr0(metrics, "contraction_mrr")),
         LastValueOr0(metrics, "churn_mrr"))

\* The net change of the parent: change_absolute of the list's mrr, if known.
MrrNetChange(metrics) ==
    IF \E i \in 1..Len(metrics) : metrics[i].metric_id = "mrr"
    THEN LET k == CHOOSE i \in 1..Len(metrics) :
                     /\ metrics[i].metric_id = "mrr"
                     /\ \A j \in (i + 1)..Len(metrics) : metrics[j].metric_id # "mrr"
         IN  metrics[k].change_absolute
    ELSE None

\* The components are outside any bounds around the parent's net change when
\* they sum to nothing, or to a loss, while the parent grew (and so with the
\* signs exchanged).
OutsideExpectedBounds(metrics) ==
    /\ MrrNetChange(metrics).some
    /\ Sign(ComponentsNet(metrics).num) # Sign(MrrNetChange(metrics).v.num)

\* C25: the mrr_decomposition_sum check compares the decomposition components
\* (new_mrr + expansion_mrr - contraction_mrr - churn_mrr) against the parent
\* mrr's net change and reports passed = false when they are not within the
\* expected bounds; some computed-metric inputs make this check fail.
C25_DecompositionChecked ==
    ReturnedFrom("validate_all") =>
        (OutsideExpectedBounds(call_args.metrics) => ~call_result[1].passed)

\* ------------------------------------------------------------------ Symmetry of scoring

\* C26: scoring is symmetric in its two records: score_pair(a, b) and
\* score_pair(b, a) have the same total_score and the same per-dimension
\* scores, and score_temporal(x, y) = score_temporal(y, x) for every pair of
\* timestamps, pairs that differ by a fraction of a day included.
C26_ScoringSymmetric ==
    /\ ReturnedFrom("score_pair") =>
          LET swapped == score_pair(call_args.record_b, call_args.record_a, TheCandidate)
          IN  /\ call_result.total_score = swapped.total_score
              /\ call_result.dimension_scores = swapped.dimension_scores
    /\ ReturnedFrom("score_temporal") =>
          call_result.score = score_temporal(call_args.ts_b, call_args.ts_a).score

\* ------------------------------------------------------------------ SpecUnionFind

\* Any sequence of find and union calls on one UnionFind object, up to
\* MaxCalls calls over the keys of UFKeys.  call_args keeps what the caller
\* knows: the pairs of distinct keys handed to union so far, each as a set of
\* two keys, and the number of calls.
MaxCalls == 4
UFKeys == {"a", "b", "c", "d"}

InitUnionFind ==
    /\ ClusterIdle
    /\ MetricsIdle
    /\ ResolveIdle
    /\ call_args = [unions |-> {}, calls |-> 0]
    /\ call_result = <<>>
    /\ call_pc = "unionfind"

\* uf.find(x)
FindCall ==
    /\ call_pc = "unionfind"
    /\ call_args.calls < MaxCalls
    /\ \E x \in UFKeys :
          /\ uf' = UFFindState(uf, x)
          /\ call_result' = UFFindRoot(uf, x)
    /\ call_args' = [call_args EXCEPT !.calls = @ + 1]
    /\ UNCHANGED <<scored_pairs, cidx, pair_map, clusters, cpc, call_pc, mvars, rvars>>

\* uf.union(x, y)
UnionCall ==
    /\ call_pc = "unionfind"
    /\ call_args.calls < MaxCalls
    /\ \E x, y \in UFKeys :
          /\ uf' = UFUnion(uf, x, y)
          /\ call_args' = [unions |-> call_args.unions \cup (IF x = y THEN {} ELSE {{x, y}}),
                           calls |-> call_args.calls + 1]
    /\ call_result' = <<>>
    /\ UNCHANGED <<scored_pairs, cidx, pair_map, clusters, cpc, call_pc, mvars, rvars>>

NextUnionFind == FindCall \/ UnionCall

SpecUnionFind == InitUnionFind /\ [][NextUnionFind]_vars

\* Following parent pointers from x reaches a self-pointing key within k steps.
RECURSIVE ReachesRootWithin(_, _, _)
ReachesRootWithin(parent, x, k) ==
    \/ parent[x] = x
    \/ k > 0 /\ parent[x] \in DOMAIN parent /\ ReachesRootWithin(parent, parent[x], k - 1)

\* The keys joined to those of S by one union call, S included.
UnionNeighbours(unions, S) == S \cup UNION {p \in unions : p \cap S # {}}

RECURSIVE LinkedTo(_, _)
LinkedTo(unions, S) ==
    IF UnionNeighbours(unions, S) = S THEN S ELSE LinkedTo(unions, UnionNeighbours(unions, S))

InUnionFind == call_pc = "unionfind"

\* C27: after any sequence of find and union calls the parent map is a
\* forest: following parent pointers from any registered key reaches a key r
\* with parent[r] = r in finitely many steps; every key that is not a root has
\* a rank strictly smaller than its parent's; two keys have the same root iff
\* they were linked by a chain of union calls, and so a find, which adds no
\* link, never changes which keys are together.
C27_UnionFindForest ==
    InUnionFind =>
        /\ DOMAIN uf.parent = Range(uf.keys)
        /\ \A x \in DOMAIN uf.parent :
              /\ uf.parent[x] \in DOMAIN uf.parent
              /\ ReachesRootWithin(uf.parent, x, Cardinality(DOMAIN uf.parent))
              /\ uf.parent[x] # x => uf.rank[x] < uf.rank[uf.parent[x]]
        /\ (\A x \in DOMAIN uf.parent :
               ReachesRootWithin(uf.parent, x, Cardinality(DOMAIN uf.parent)))
           => \A x, y \in DOMAIN uf.parent :
                 (RootOf(uf.parent, x) = RootOf(uf.parent, y))
                    <=> (y \in LinkedTo(call_args.unions, {x}))

\* Two trees of rank 1 were joined into one of rank 2 over four keys, and a
\* later find has pointed a key from its parent to the root.
C27_Witness ==
    /\ InUnionFind
    /\ DOMAIN uf.parent = UFKeys
    /\ \E r \in UFKeys :
          /\ uf.rank[r] = 2
          /\ \A x \in UFKeys : RootOf(uf.parent, x) = r
          /\ Cardinality({x \in UFKeys : uf.parent[x] = r}) = 4
          /\ Cardinality(call_args.unions) = 3

\* ------------------------------------------------------------------ Recorded pairs of a cluster

\* C28: every cluster returned by cluster has a non-empty pair_scores list,
\* both endpoints of every pair in that list are members of that same cluster,
\* and high_confidence_threshold <= avg_confidence <= max_confidence; the 0.0
\* fallback for a cluster without recorded pairs is never reached.
C28_RecordedPairs ==
    cpc = "done" =>
        \A i \in 1..Len(clusters) :
            /\ clusters[i].pair_scores # <<>>
            /\ \A k \in 1..Len(clusters[i].pair_scores) :
                  /\ IdA(clusters[i].pair_scores[k]) \in Range(clusters[i].members)
                  /\ IdB(clusters[i].pair_scores[k]) \in Range(clusters[i].members)
            /\ RLeq(RInt(HighConfidenceThreshold), clusters[i].avg_confidence)
            /\ RLeq(clusters[i].avg_confidence, RInt(clusters[i].max_confidence))

\* Three strong pairs, the third joining two groups: the cluster of four
\* members records two of the pairs, of different scores, the pair filed under
\* the absorbed root being out of reach.
C28_Witness ==
    /\ cpc = "done"
    /\ Len(clusters) = 1
    /\ Len(clusters[1].members) = 4
    /\ Len(clusters[1].pair_scores) = 2
    /\ clusters[1].pair_scores[1].total_score # clusters[1].pair_scores[2].total_score
    /\ Cardinality(StrongPairs(scored_pairs)) = 3

\* ------------------------------------------------------------------ Formulas over names without a value

\* The names of the nrr and logo_churn_rate formulas that no metric defines.
UndefinedFormulaNames == {"mrr_previous", "churned_customers", "active_customers_start"}

PyBigInt == [t |-> "bigint"]

\* The exception float(value) raises, "none" when it returns.
FloatError(val) ==
    CASE val.t = "bigint" -> "OverflowError"
      [] val.t = "none" -> "TypeError"
      [] val.t = "str" /\ val.v \notin DOMAIN NumericStrings -> "ValueError"
      [] OTHER -> "none"

\* except (ValueError, TypeError)
NumericFieldCaught == {"ValueError", "TypeError"}

\* _get_numeric_field lets the exception of float(value) through.
NumericFieldRaises(entity, field_name) ==
    LET val == DictGetOr(entity, field_name, PyInt(0))
    IN  /\ val.t # "none"
        /\ FloatError(val) \notin ({"none"} \cup NumericFieldCaught)

\* _compute_direct_metric raises: a filtered entity's field read does.
DirectMetricRaises(metric_def, entities) ==
    LET filtered == Filtered(entities, metric_def.filter)
        field_read == IF metric_def.type = "sum" THEN metric_def.field ELSE "delta"
    IN  /\ metric_def.type \in {"sum", "sum_positive_delta", "sum_negative_delta"}
        /\ \E i \in 1..Len(filtered) : NumericFieldRaises(filtered[i], field_read)

MaxDeltaEntities == 3

\* CORE_METRICS[metric_id]
CoreMetric(metric_id) ==
    CORE_METRICS[CHOOSE i \in 1..Len(CORE_METRICS) : CORE_METRICS[i].metric_id = metric_id]

DeltaEntity(status, existing_customer) ==
    ("status" :> PyStr(status)) @@ ("existing_customer" :> existing_customer)

\* Entities of existing and other customers, active and not, whose delta is a
\* number, a numeric string, a string float() rejects, None, missing, or an
\* int beyond the range of float.
DeltaEntityUniverse ==
    { DeltaEntity("active", PyBool(TRUE)) @@ ("delta" :> PyInt(50)),
      DeltaEntity("active", PyBool(TRUE)) @@ ("delta" :> PyInt(-100)),
      DeltaEntity("active", PyInt(1)) @@ ("delta" :> PyStr("250")),
      DeltaEntity("active", PyBool(TRUE)) @@ ("delta" :> PyStr("n/a")),
      DeltaEntity("active", PyStr("yes")),
      DeltaEntity("active", PyBool(TRUE)) @@ ("delta" :> PyNone),
      DeltaEntity("canceled", PyBool(TRUE)) @@ ("delta" :> PyInt(70)),
      DeltaEntity("active", PyBool(FALSE)) @@ ("delta" :> PyInt(30)),
      ("status" :> PyStr("active")) @@ ("delta" :> PyInt(-20)),
      DeltaEntity("active", PyBool(TRUE)) @@ ("delta" :> PyBigInt) }

InitDirect ==
    /\ \E es \in SeqsUpTo(DeltaEntityUniverse, MaxDeltaEntities) :
          call_args = [fn |-> "_compute_direct_metric", entity_data |-> es]
    /\ call_result = <<>>
    /\ call_pc = "called"
    /\ ClusterIdle
    /\ MetricsIdle
    /\ ResolveIdle

\* The direct pass over expansion_mrr and contraction_mrr: both values, or
\* the exception that leaves _compute_direct_metric.
DirectCall ==
    /\ call_pc = "called"
    /\ call_args.fn = "_compute_direct_metric"
    /\ call_result' =
          IF \/ DirectMetricRaises(CoreMetric("expansion_mrr"), call_args.entity_data)
             \/ DirectMetricRaises(CoreMetric("contraction_mrr"), call_args.entity_data)
          THEN [raised |-> TRUE, expansion_mrr |-> 0, contraction_mrr |-> 0]
          ELSE [raised |-> FALSE,
                expansion_mrr |->
                    _compute_direct_metric(CoreMetric("expansion_mrr"), call_args.entity_data),
                contraction_mrr |->
                    _compute_direct_metric(CoreMetric("contraction_mrr"), call_args.entity_data)]
    /\ call_pc' = "returned"
    /\ UNCHANGED <<call_args, cvars, mvars, rvars>>

NextDirect == DirectCall

SpecDirect == InitDirect /\ [][NextDirect]_vars

\* An active entity with a truthy existing_customer.
ActiveExistingCustomer(e) ==
    /\ "status" \in DOMAIN e /\ e["status"] = PyStr("active")
    /\ "existing_customer" \in DOMAIN e
    /\ e["existing_customer"] \notin {PyNone, PyBool(FALSE), PyInt(0), PyStr("")}

\* The delta of an entity as a number: 0 when missing, None or not numeric.
DeltaOf(e) ==
    IF "delta" \notin DOMAIN e THEN 0
    ELSE IF e["delta"].t = "int" THEN e["delta"].v
    ELSE IF e["delta"].t = "str" /\ e["delta"].v \in DOMAIN NumericStrings
         THEN NumericStrings[e["delta"].v]
    ELSE 0

RECURSIVE DeltaSum(_)
DeltaSum(entities) ==
    IF entities = <<>> THEN 0
    ELSE (IF ActiveExistingCustomer(Head(entities)) THEN DeltaOf(Head(entities)) ELSE 0)
         + DeltaSum(Tail(entities))

\* C30: for every entity list the direct pass returns without raising,
\* expansion_mrr >= 0, contraction_mrr >= 0, and expansion_mrr - contraction_mrr
\* is the sum of 'delta' (missing or non-numeric counted as 0) over the active
\* entities with a truthy existing_customer.
C30_ExpansionContraction ==
    ReturnedFrom("_compute_direct_metric") =>
        /\ ~call_result.raised
        /\ call_result.expansion_mrr >= 0
        /\ call_result.contraction_mrr >= 0
        /\ call_result.expansion_mrr - call_result.contraction_mrr
              = DeltaSum(call_args.entity_data)

\* The same relation over the calls that return.
C30_HoldsWhenReturning ==
    (ReturnedFrom("_compute_direct_metric") /\ ~call_result.raised) =>
        /\ call_result.expansion_mrr >= 0
        /\ call_result.contraction_mrr >= 0
        /\ call_result.expansion_mrr - call_result.contraction_mrr
              = DeltaSum(call_args.entity_data)

====
